---- MODULE Spec2Model ----
(***************************************************************************)
(* Model of the @1focus/storage R2 client (packages/storage/src/r2.ts):    *)
(* the object operations of makeR2Layer against a nondeterministic backend,*)
(* the connection-string functions parseR2Url / toR2Url, and signRequest;  *)
(* and of the 1focus Logger and its hosted-logs client.                    *)
(*                                                                         *)
(* Spec      the operations of the service, one call at a time             *)
(* FairSpec  Spec, with every list request answered in the end             *)
(* SpecUrl   parseR2Url and toR2Url                                        *)
(* SpecSign  two signRequest calls and a clock                             *)
(* SpecMany  deleteMany against a bucket                                   *)
(* SpecCopy  copy against a bucket                                         *)
(* SpecReads the reading operations, delete and copy against a bucket      *)
(* SpecCalls SpecReads with put and listAll                                *)
(* SpecRace  copy while another writer changes the bucket                  *)
(* SpecEnv   R2FromEnv and loadR2Config (storage config.ts)                *)
(* SpecCleanup the cleanup of test uploads (storage test.ts)               *)
(* SpecLogger  the Logger of src/index.ts                                  *)
(* SpecSend    send of the hosted-logs client                              *)
(*                                                                         *)
(* Text whose characters matter (keys, public URLs, etags, connection      *)
(* strings) is a sequence of one-character strings; opaque text (bucket    *)
(* names, response bodies) is a TLA+ string.                               *)
(***************************************************************************)
EXTENDS Integers, Sequences, FiniteSets, TLC

VARIABLES
    config,      \* the R2Config the layer was made with
    op,          \* the operation in progress ("idle" when none)
    pc,          \* "idle" | "wait" (a request is in flight) | "done"
    arg,         \* the arguments of the call in progress
    sent,        \* the HTTP requests this call has issued, in order
    resp,        \* the responses this call has received, in order
    outcome,     \* how the call ended: a value or a tagged error
    allObjects,  \* listAll: the objects gathered so far
    cursor,      \* listAll: the continuation cursor
    pages,       \* the backend's list pages served so far (page i at index i)
    clock,       \* the wall clock that new Date() reads
    signing,     \* the signRequest calls in progress, by call
    queue,       \* deleteMany: the index of the next key to take
    inFlight,    \* deleteMany: the keys whose DELETE is in flight
    answered,    \* deleteMany: the keys whose delete has succeeded
    store,       \* the backend: the object stored under each key, if any
    loggers,     \* the Logger objects made so far, in order of creation
    clientCache, \* clientCache: the keys of the Axiom clients made so far
    ingested,    \* the events handed to client.ingest, in order
    flushes,     \* the number of calls of client.flush
    timer        \* logs client: the timeout timer of the send in progress

clientVars ==
    <<config, op, pc, arg, sent, resp, outcome, allObjects, cursor, pages>>

signVars == <<clock, signing>>

manyVars == <<queue, inFlight, answered>>

logVars == <<loggers, clientCache, ingested, flushes, timer>>

vars == <<clientVars, signVars, manyVars, store, logVars>>

----------------------------------------------------------------------------
(* Bounds of the model *)

MaxPages == 3
MaxObjs == 2
MaxClock == 2
MaxKeys == 11
MaxListed == 3
MaxLoggers == 2
MaxEvents == 1

----------------------------------------------------------------------------
(* Optional values: undefined, or a value *)

None == [has |-> FALSE]

Some(v) == [has |-> TRUE, v |-> v]

\* JavaScript truthiness of an optional string: undefined and "" are falsy
Truthy(o) == o.has /\ o.v # <<>>

\* a ?? b
OrElse(o, d) == IF o.has THEN o.v ELSE d

----------------------------------------------------------------------------
(* Inputs *)

Quote == "\""

Keys == { <<"k">>, <<"d", "/", "k">>, <<"k", " ">> }

PublicUrls ==
    { None, Some(<<>>), Some(<<"p">>), Some(<<"p", "/">>),
      Some(<<"p", "/", "/">>) }

Configs ==
    { [accountId |-> "acct", accessKeyId |-> "AK", secretAccessKey |-> "SK",
       bucket |-> "bkt", publicUrl |-> u] : u \in PublicUrls }

\* HTTP statuses a backend can answer with: below, inside and above 2xx
Statuses == { 199, 200, 204, 299, 300, 403, 404, 500 }

\* raw response bodies (error documents)
Bodies == { "", "AccessDenied" }

\* ETag header values: absent, bare, or quoted as S3 sends them
ETagHeaders == { None, Some(<<"e">>), Some(<<Quote, "e", Quote>>) }

\* A response of the transport: a network-level failure, or a status with
\* headers and a body
NetworkFailure == [kind |-> "failure"]

Response(status, etag, body) ==
    [kind |-> "response", status |-> status, etag |-> etag, body |-> body]

Responses ==
    { NetworkFailure } \cup
    { Response(s, e, b) : s \in Statuses, e \in ETagHeaders, b \in Bodies }

----------------------------------------------------------------------------
(* Errors and results *)

NoOutcome == [tag |-> "none"]

Ok(v) == [tag |-> "ok", value |-> v]

\* new R2Error({ operation, message, status })
R2Error(operation, message, status) ==
    [tag |-> "R2Error", operation |-> operation, message |-> message,
     status |-> status]

\* new R2NotFoundError({ bucket, key })
R2NotFoundError(bucket, key) ==
    [tag |-> "R2NotFoundError", bucket |-> bucket, key |-> key]

\* Effect.mapError((e) => new R2Error({ operation, message: String(e) }))
TransportError(operation) == R2Error(operation, "RequestError", None)

IsSuccessStatus(status) == ~(status < 200 \/ status >= 300)

----------------------------------------------------------------------------
(* getPublicUrl *)

EndsWithSlash(s) == Len(s) > 0 /\ s[Len(s)] = "/"

getPublicUrl(key) ==
    IF ~Truthy(config.publicUrl) THEN None
    ELSE LET p == config.publicUrl.v
             base == IF EndsWithSlash(p) THEN SubSeq(p, 1, Len(p) - 1) ELSE p
         IN Some(base \o <<"/">> \o key)

----------------------------------------------------------------------------
(* Requests *)

\* the percent escape of a character
Escape(c) ==
    CASE c = "@" -> "%40"
      [] c = ":" -> "%3A"
      [] c = "/" -> "%2F"
      [] c = "?" -> "%3F"
      [] c = "#" -> "%23"
      [] c = "%" -> "%25"
      [] c = " " -> "%20"
      [] c = "&" -> "%26"
      [] c = "=" -> "%3D"
      [] c = "+" -> "%2B"

Escapable == { "@", ":", "/", "?", "#", "%", " ", "&", "=", "+" }

Escapes == { Escape(c) : c \in Escapable }

\* the character a percent escape stands for
Unescape(t) == CHOOSE c \in Escapable : Escape(c) = t

\* encodeKey: the key with every segment between slashes escaped
RECURSIVE encodeKey(_)
encodeKey(key) ==
    IF key = <<>> THEN <<>>
    ELSE (IF Head(key) \in Escapable \ {"/"} THEN <<Escape(Head(key))>>
          ELSE <<Head(key)>>)
         \o encodeKey(Tail(key))

\* a signed request for one object: the method, the key it addresses and
\* the path of its URL under the bucket
ObjectRequest(method, key) ==
    [method |-> method, key |-> key, path |-> encodeKey(key)]

----------------------------------------------------------------------------
(* delete *)

\* a plausible slip: delete treats 404 like get and head do
DeleteRejectsNotFound(status) == status < 200 \/ status >= 300

\* the condition under which delete fails on a response
DeleteRejects(status) == status < 200 \/ (status >= 300 /\ status # 404)

\* what delete(key) ends with on a transport result
DeleteOutcome(r) ==
    IF r.kind = "failure" THEN TransportError("delete")
    ELSE IF DeleteRejects(r.status)
         THEN R2Error("delete", r.body, Some(r.status))
         ELSE Ok("void")

DeleteCall ==
    /\ pc = "idle"
    /\ \E key \in Keys :
          /\ op' = "delete"
          /\ arg' = [key |-> key]
          /\ sent' = << ObjectRequest("DELETE", key) >>
    /\ pc' = "wait"
    /\ UNCHANGED <<config, resp, outcome, allObjects, cursor, pages>>
    /\ UNCHANGED <<signVars, manyVars, store, logVars>>

DeleteReturn ==
    /\ pc = "wait" /\ op = "delete"
    /\ \E r \in Responses :
          /\ resp' = Append(resp, r)
          /\ outcome' = DeleteOutcome(r)
    /\ pc' = "done"
    /\ UNCHANGED <<config, op, arg, sent, allObjects, cursor, pages>>
    /\ UNCHANGED <<signVars, manyVars, store, logVars>>

----------------------------------------------------------------------------
(* head and exists *)

\* the metadata headers of a HEAD response: all absent, or all present
HeadMetas ==
    { [contentLength |-> None, lastModified |-> None, contentType |-> None],
      [contentLength |-> Some(5), lastModified |-> Some("Wed"),
       contentType |-> Some("text/plain")] }

HeadResponses ==
    { NetworkFailure } \cup
    { [kind |-> "response", status |-> s, etag |-> e, body |-> "",
       contentLength |-> m.contentLength, lastModified |-> m.lastModified,
       contentType |-> m.contentType] :
         s \in Statuses, e \in ETagHeaders, m \in HeadMetas }

\* the descriptor head builds from the response headers
HeadDescriptor(key, r) ==
    [key |-> key,
     size |-> IF r.contentLength.has THEN r.contentLength.v ELSE 0,
     etag |-> OrElse(r.etag, <<>>),
     lastModified |-> OrElse(r.lastModified, "now"),
     url |-> getPublicUrl(key),
     httpMetadata |-> [contentType |-> r.contentType]]

\* a plausible slip: a missing object reads as a descriptor without headers
HeadOutcomeLenient(key, r) ==
    IF r.kind = "failure" THEN TransportError("head")
    ELSE IF r.status # 404 /\ (r.status < 200 \/ r.status >= 300)
         THEN R2Error("head", "HEAD failed", Some(r.status))
         ELSE Ok(HeadDescriptor(key, r))

\* what head(key) ends with on a transport result
HeadOutcome(key, r) ==
    IF r.kind = "failure" THEN TransportError("head")
    ELSE IF r.status = 404 THEN R2NotFoundError(config.bucket, key)
    ELSE IF r.status < 200 \/ r.status >= 300
         THEN R2Error("head", "HEAD failed", Some(r.status))
         ELSE Ok(HeadDescriptor(key, r))

HeadCall ==
    /\ pc = "idle"
    /\ \E key \in Keys :
          /\ op' = "head"
          /\ arg' = [key |-> key]
          /\ sent' = << ObjectRequest("HEAD", key) >>
    /\ pc' = "wait"
    /\ UNCHANGED <<config, resp, outcome, allObjects, cursor, pages>>
    /\ UNCHANGED <<signVars, manyVars, store, logVars>>

HeadReturn ==
    /\ pc = "wait" /\ op = "head"
    /\ \E r \in HeadResponses :
          /\ resp' = Append(resp, r)
          /\ outcome' = HeadOutcome(arg.key, r)
    /\ pc' = "done"
    /\ UNCHANGED <<config, op, arg, sent, allObjects, cursor, pages>>
    /\ UNCHANGED <<signVars, manyVars, store, logVars>>

\* a plausible slip: Effect.catchAll instead of catchTag("R2NotFoundError")
ExistsCatchAll(h) == IF h.tag = "ok" THEN Ok(TRUE) ELSE Ok(FALSE)

\* Effect.map(() => true), Effect.catchTag("R2NotFoundError", () => false)
ExistsOutcome(h) ==
    IF h.tag = "ok" THEN Ok(TRUE)
    ELSE IF h.tag = "R2NotFoundError" THEN Ok(FALSE)
    ELSE h

ExistsCall ==
    /\ pc = "idle"
    /\ \E key \in Keys :
          /\ op' = "exists"
          /\ arg' = [key |-> key]
          /\ sent' = << ObjectRequest("HEAD", key) >>
    /\ pc' = "wait"
    /\ UNCHANGED <<config, resp, outcome, allObjects, cursor, pages>>
    /\ UNCHANGED <<signVars, manyVars, store, logVars>>

ExistsReturn ==
    /\ pc = "wait" /\ op = "exists"
    /\ \E r \in HeadResponses :
          /\ resp' = Append(resp, r)
          /\ outcome' = ExistsOutcome(HeadOutcome(arg.key, r))
    /\ pc' = "done"
    /\ UNCHANGED <<config, op, arg, sent, allObjects, cursor, pages>>
    /\ UNCHANGED <<signVars, manyVars, store, logVars>>

----------------------------------------------------------------------------
(* put *)

\* TextEncoder: the UTF-8 bytes of one character
Utf8(c) ==
    CASE c = "h" -> <<104>>
      [] c = "i" -> <<105>>
      [] c = "e-acute" -> <<195, 169>>
      [] c = "euro" -> <<226, 130, 172>>
      [] c = "1" -> <<49>>

RECURSIVE TextEncode(_)
TextEncode(text) ==
    IF text = <<>> THEN <<>>
    ELSE Utf8(Head(text)) \o TextEncode(Tail(text))

\* the bodies a caller passes: text, an ArrayBuffer, or a Uint8Array that
\* views all or part of a buffer
PutBodies ==
    { [type |-> "string", text |-> <<"h", "i">>],
      [type |-> "string", text |-> <<"e-acute", "euro">>],
      [type |-> "string", text |-> <<>>],
      [type |-> "ArrayBuffer", bytes |-> <<7, 8>>],
      [type |-> "Uint8Array", buffer |-> <<7, 8, 9>>, byteOffset |-> 0,
       byteLength |-> 3],
      [type |-> "Uint8Array", buffer |-> <<7, 8, 9>>, byteOffset |-> 1,
       byteLength |-> 1] }

\* a Uint8Array: a window on a buffer
View(buffer, byteOffset, byteLength) ==
    [buffer |-> buffer, byteOffset |-> byteOffset, byteLength |-> byteLength]

\* the bytes a Uint8Array holds
ViewBytes(v) == SubSeq(v.buffer, v.byteOffset + 1, v.byteOffset + v.byteLength)

\* bodyBytes: encode text, keep a Uint8Array, wrap an ArrayBuffer
BodyBytes(body) ==
    IF body.type = "string"
    THEN LET b == TextEncode(body.text) IN View(b, 0, Len(b))
    ELSE IF body.type = "Uint8Array"
    THEN View(body.buffer, body.byteOffset, body.byteLength)
    ELSE View(body.bytes, 0, Len(body.bytes))

\* truthiness of an optional opaque string
TruthyStr(o) == o.has /\ o.v # ""

PutOptions ==
    { [contentType |-> ct, cacheControl |-> x.cc, contentDisposition |-> x.cd,
       customMetadata |-> cm] :
         ct \in { None, Some("text/plain") },
         x \in { [cc |-> None, cd |-> None],
                 [cc |-> Some("max-age=60"), cd |-> Some("inline")] },
         cm \in { None, Some({ <<"source", "test">> }) } }

\* the request headers of a put, as name/value pairs
PutHeaders(options) ==
    { << <<"content-type">>,
         OrElse(options.contentType, "application/octet-stream") >> }
    \cup (IF TruthyStr(options.cacheControl)
          THEN { << <<"cache-control">>, options.cacheControl.v >> } ELSE {})
    \cup (IF TruthyStr(options.contentDisposition)
          THEN { << <<"content-disposition">>, options.contentDisposition.v >> }
          ELSE {})
    \cup (IF options.customMetadata.has
          THEN { << <<"x-amz-meta-", e[1]>>, e[2] >> :
                    e \in options.customMetadata.v }
          ELSE {})

\* the PUT request: signed over bodyBytes.buffer, sent with bodyBytes
PutRequest(key, bodyBytes, options) ==
    [method |-> "PUT", key |-> key, path |-> encodeKey(key),
     headers |-> PutHeaders(options),
     signedBody |-> bodyBytes.buffer, body |-> ViewBytes(bodyBytes)]

\* a plausible slip: the length of the underlying buffer, as the signer is
\* handed, instead of the length of the view
PutSizeOfBuffer(bodyBytes) == Len(bodyBytes.buffer)

\* size: bodyBytes.byteLength
PutSize(bodyBytes) == bodyBytes.byteLength

\* the descriptor put returns
PutDescriptor(key, bodyBytes, options, r) ==
    [key |-> key,
     size |-> PutSize(bodyBytes),
     etag |-> OrElse(r.etag, <<>>),
     lastModified |-> "now",
     url |-> getPublicUrl(key),
     httpMetadata |-> [contentType |-> options.contentType,
                       cacheControl |-> options.cacheControl,
                       contentDisposition |-> options.contentDisposition],
     customMetadata |-> options.customMetadata]

\* what put ends with on a transport result
PutOutcome(key, bodyBytes, options, r) ==
    IF r.kind = "failure" THEN TransportError("put")
    ELSE IF r.status < 200 \/ r.status >= 300
         THEN R2Error("put", r.body, Some(r.status))
         ELSE Ok(PutDescriptor(key, bodyBytes, options, r))

PutCall ==
    /\ pc = "idle"
    /\ \E key \in Keys, body \in PutBodies, options \in PutOptions :
          /\ op' = "put"
          /\ arg' = [key |-> key, body |-> body, options |-> options]
          /\ sent' = << PutRequest(key, BodyBytes(body), options) >>
    /\ pc' = "wait"
    /\ UNCHANGED <<config, resp, outcome, allObjects, cursor, pages>>
    /\ UNCHANGED <<signVars, manyVars, store, logVars>>

PutReturn ==
    /\ pc = "wait" /\ op = "put"
    /\ \E r \in Responses :
          /\ resp' = Append(resp, r)
          /\ outcome' = PutOutcome(arg.key, BodyBytes(arg.body), arg.options, r)
    /\ pc' = "done"
    /\ UNCHANGED <<config, op, arg, sent, allObjects, cursor, pages>>
    /\ UNCHANGED <<signVars, manyVars, store, logVars>>

----------------------------------------------------------------------------
(* get, getText and getJson *)

\* the characters TextDecoder can produce here; U+FFFD stands for bytes that
\* are not UTF-8
Chars == { "h", "i", "e-acute", "euro", "1" }

IsPrefix(p, s) == Len(p) <= Len(s) /\ SubSeq(s, 1, Len(p)) = p

\* new TextDecoder().decode(buffer): never throws, malformed bytes become
\* U+FFFD
RECURSIVE TextDecode(_)
TextDecode(bytes) ==
    IF bytes = <<>> THEN <<>>
    ELSE IF \E c \in Chars : IsPrefix(Utf8(c), bytes)
    THEN LET c == CHOOSE c \in Chars : IsPrefix(Utf8(c), bytes)
         IN <<c>> \o TextDecode(SubSeq(bytes, Len(Utf8(c)) + 1, Len(bytes)))
    ELSE <<"U+FFFD">> \o TextDecode(Tail(bytes))

\* JSON.parse(text) of the texts here: a number written with the digit 1 is
\* JSON, anything else (the empty text included) makes it throw SyntaxError
JSONParse(text) ==
    IF text # <<>> /\ \A i \in 1..Len(text) : text[i] = "1"
    THEN [ok |-> TRUE, value |-> <<"number", text>>]
    ELSE [ok |-> FALSE]

\* the bytes of an object: JSON, text that is not JSON, nothing, bytes that
\* are not UTF-8
GetPayloads == { <<49>>, <<104, 105>>, <<>>, <<195>> }

\* the answers to a GET: a failure, an error status with an error document,
\* or a 2xx status with the object's bytes, whose reading can fail midway
GetResponses ==
    { NetworkFailure }
    \cup { [kind |-> "response", status |-> s, body |-> b, bytes |-> <<>>,
            readable |-> TRUE] :
              s \in { t \in Statuses : ~IsSuccessStatus(t) }, b \in Bodies }
    \cup { [kind |-> "response", status |-> s, body |-> "", bytes |-> y,
            readable |-> a] :
              s \in { t \in Statuses : IsSuccessStatus(t) }, y \in GetPayloads,
              a \in BOOLEAN }

\* an exception thrown inside Effect.gen: the effect dies with a defect,
\* which is no member of its typed error channel
Die(defect) == [tag |-> "Die", defect |-> defect]

\* Effect.mapError((e) => new R2Error({ operation, message: String(e) }))
\* on response.arrayBuffer
BodyError(operation) == R2Error(operation, "ResponseError", None)

\* a plausible slip: get reports a missing object as a protocol error
GetOutcomeNoNotFound(key, r) ==
    IF r.kind = "failure" THEN TransportError("get")
    ELSE IF r.status < 200 \/ r.status >= 300
         THEN R2Error("get", r.body, Some(r.status))
         ELSE IF r.readable THEN Ok(r.bytes) ELSE BodyError("get")

\* what get(key) ends with on a transport result
GetOutcome(key, r) ==
    IF r.kind = "failure" THEN TransportError("get")
    ELSE IF r.status = 404 THEN R2NotFoundError(config.bucket, key)
    ELSE IF r.status < 200 \/ r.status >= 300
         THEN R2Error("get", r.body, Some(r.status))
         ELSE IF r.readable THEN Ok(r.bytes) ELSE BodyError("get")

\* getText: the bytes of get, decoded
GetTextOutcome(g) == IF g.tag = "ok" THEN Ok(TextDecode(g.value)) ELSE g

\* a plausible slip: unparsable text is returned as it is
GetJsonLenient(t) ==
    IF t.tag # "ok" THEN t
    ELSE IF JSONParse(t.value).ok THEN Ok(JSONParse(t.value).value) ELSE t

\* getJson: the text of getText, parsed; JSON.parse throws inside the
\* generator
GetJsonOutcome(t) ==
    IF t.tag # "ok" THEN t
    ELSE IF JSONParse(t.value).ok THEN Ok(JSONParse(t.value).value)
         ELSE Die("SyntaxError")

\* get, getText or getJson is called: the GET request is issued
GetCall(kind) ==
    /\ pc = "idle"
    /\ \E key \in Keys :
          /\ op' = kind
          /\ arg' = [key |-> key]
          /\ sent' = << ObjectRequest("GET", key) >>
    /\ pc' = "wait"
    /\ UNCHANGED <<config, resp, outcome, allObjects, cursor, pages>>
    /\ UNCHANGED <<signVars, manyVars, store, logVars>>

\* a plausible slip: a GET that failed at the transport is issued once more
GetReturnRetrying ==
    /\ pc = "wait" /\ op \in { "get", "getText", "getJson" }
    /\ \E r \in GetResponses :
          /\ resp' = Append(resp, r)
          /\ IF r.kind = "failure" /\ Len(sent) = 1
             THEN /\ sent' = Append(sent, sent[1])
                  /\ UNCHANGED <<pc, outcome>>
             ELSE /\ outcome' =
                        CASE op = "get" -> GetOutcome(arg.key, r)
                          [] op = "getText" ->
                                GetTextOutcome(GetOutcome(arg.key, r))
                          [] op = "getJson" ->
                                GetJsonOutcome(
                                    GetTextOutcome(GetOutcome(arg.key, r)))
                  /\ pc' = "done"
                  /\ UNCHANGED sent
    /\ UNCHANGED <<config, op, arg, allObjects, cursor, pages>>
    /\ UNCHANGED <<signVars, manyVars, store, logVars>>

GetReturn ==
    /\ pc = "wait" /\ op \in { "get", "getText", "getJson" }
    /\ \E r \in GetResponses :
          /\ resp' = Append(resp, r)
          /\ outcome' =
                CASE op = "get" -> GetOutcome(arg.key, r)
                  [] op = "getText" -> GetTextOutcome(GetOutcome(arg.key, r))
                  [] op = "getJson" ->
                        GetJsonOutcome(GetTextOutcome(GetOutcome(arg.key, r)))
    /\ pc' = "done"
    /\ UNCHANGED <<config, op, arg, sent, allObjects, cursor, pages>>
    /\ UNCHANGED <<signVars, manyVars, store, logVars>>

----------------------------------------------------------------------------
(* getPublicUrl as a call of the service *)

GetPublicUrlCall ==
    /\ pc = "idle"
    /\ \E key \in Keys :
          /\ op' = "getPublicUrl"
          /\ arg' = [key |-> key]
          /\ outcome' = Ok(getPublicUrl(key))
    /\ pc' = "done"
    /\ UNCHANGED <<config, sent, resp, allObjects, cursor, pages>>
    /\ UNCHANGED <<signVars, manyVars, store, logVars>>

----------------------------------------------------------------------------
(* list and listAll *)

\* the prefixes a caller lists under: none, empty, or a folder
Prefixes == { None, Some(<<>>), Some(<<"d", "/">>) }

\* the statuses the backend answers a list request with
ListStatuses == { 199, 200, 404, 500 }

Digits == <<"1", "2", "3", "4", "5">>

\* the <Contents> blocks of page idx when it holds n objects
PageContents(idx, n) ==
    [j \in 1..n |->
        [key |-> <<"o", Digits[idx], Digits[j]>>, size |-> Some(j),
         etag |-> Some(<<Quote, "e", Digits[j], Quote>>),
         lastModified |-> Some("Wed")]]

\* <IsTruncated> and <NextContinuationToken> of page idx: a truncated page
\* names the next page, or carries no token or an empty one; a last page
\* carries no token or a stale one
PageEnds(idx) ==
    { [isTruncated |-> "true", nextToken |-> None],
      [isTruncated |-> "true", nextToken |-> Some(<<>>)],
      [isTruncated |-> "false", nextToken |-> None],
      [isTruncated |-> "false", nextToken |-> Some(<<1>>)] }
    \cup (IF idx < MaxPages
          THEN { [isTruncated |-> "true", nextToken |-> Some(<<idx + 1>>)] }
          ELSE {})

\* the list documents the backend can hold as page idx: <Contents> blocks,
\* <IsTruncated>, <NextContinuationToken>, and here neither a top-level
\* <Prefix> nor <CommonPrefixes>
XmlPages(idx) ==
    { [contents |-> PageContents(idx, n), isTruncated |-> e.isTruncated,
       nextToken |-> e.nextToken, prefix |-> None, commonPrefixes |-> <<>>] :
         n \in 0..MaxObjs, e \in PageEnds(idx) }

\* URLSearchParams of a list request, in the order they are set
ListParams(options) ==
    << <<"list-type", Some(<<2>>)>> >>
    \o (IF Truthy(options.prefix) THEN << <<"prefix", options.prefix>> >>
        ELSE <<>>)
    \o (IF Truthy(options.delimiter)
        THEN << <<"delimiter", options.delimiter>> >> ELSE <<>>)
    \o (IF Truthy(options.cursor)
        THEN << <<"continuation-token", options.cursor>> >> ELSE <<>>)
    \o (IF options.limit.has /\ options.limit.v # 0
        THEN << <<"max-keys", options.limit>> >> ELSE <<>>)

ListRequest(options) == [method |-> "GET", params |-> ListParams(options)]

\* the value of a query parameter of a request, undefined when not sent
Param(req, name) ==
    IF \E i \in 1..Len(req.params) : req.params[i][1] = name
    THEN req.params[CHOOSE i \in 1..Len(req.params) : req.params[i][1] = name][2]
    ELSE None

\* etag?.replace(/"/g, "") ?? ""
RECURSIVE StripQuotes(_)
StripQuotes(s) ==
    IF s = <<>> THEN <<>>
    ELSE (IF Head(s) = Quote THEN <<>> ELSE <<Head(s)>>) \o StripQuotes(Tail(s))

\* getContents: one object per <Contents> block that has a key
RECURSIVE GetContents(_)
GetContents(contents) ==
    IF contents = <<>> THEN <<>>
    ELSE LET c == Head(contents) IN
         (IF c.key # <<>>
          THEN << [key |-> c.key,
                   size |-> IF c.size.has THEN c.size.v ELSE 0,
                   etag |-> IF c.etag.has THEN StripQuotes(c.etag.v) ELSE <<>>,
                   lastModified |-> OrElse(c.lastModified, "now"),
                   url |-> getPublicUrl(c.key)] >>
          ELSE <<>>)
         \o GetContents(Tail(contents))

\* getAllTags("Prefix", xml): the values of all <Prefix> tags of the
\* document that are not empty, in document order: the top-level one, which
\* echoes the request, before those in <CommonPrefixes> wrappers
AllPrefixTags(xml) ==
    (IF Truthy(xml.prefix) THEN << xml.prefix.v >> ELSE << >>)
    \o SelectSeq(xml.commonPrefixes, LAMBDA p : p # << >>)

\* xml.includes(`<CommonPrefixes><Prefix>${p}</Prefix></CommonPrefixes>`)
IncludesWrapped(xml, p) ==
    \E i \in 1..Len(xml.commonPrefixes) : xml.commonPrefixes[i] = p

\* the <Prefix> values that occur wrapped in <CommonPrefixes>
DelimitedPrefixes(xml) ==
    SelectSeq(AllPrefixTags(xml), LAMBDA p : IncludesWrapped(xml, p))

\* the R2ListResult list parses out of a list document
ListResult(xml) ==
    [objects |-> GetContents(xml.contents),
     truncated |-> (xml.isTruncated = "true"),
     cursor |-> xml.nextToken,
     delimitedPrefixes |-> DelimitedPrefixes(xml)]

\* a plausible slip: the error document of a failed list is dropped
ListOutcomeNoBody(r) ==
    IF r.kind = "failure" THEN TransportError("list")
    ELSE IF r.status < 200 \/ r.status >= 300
         THEN R2Error("list", "", Some(r.status))
         ELSE Ok(ListResult(r.xml))

\* what list ends with on a transport result
ListOutcome(r) ==
    IF r.kind = "failure" THEN TransportError("list")
    ELSE IF r.status < 200 \/ r.status >= 300
         THEN R2Error("list", r.body, Some(r.status))
         ELSE Ok(ListResult(r.xml))

\* the page a list request addresses: the first without a token
PageIndex(req) ==
    LET t == Param(req, "continuation-token") IN
    IF t.has THEN t.v[1] ELSE 1

\* the answers of the backend to a list request: a failure, an error
\* status, or the page the request addresses (the same page whenever it is
\* asked again)
ListResponses(req) ==
    { NetworkFailure }
    \cup { [kind |-> "response", status |-> s, body |-> b] :
              s \in ListStatuses \ {200}, b \in Bodies }
    \cup { [kind |-> "response", status |-> 200, body |-> "", xml |-> x] :
              x \in IF PageIndex(req) <= Len(pages)
                    THEN { pages[PageIndex(req)] }
                    ELSE XmlPages(PageIndex(req)) }

\* a plausible slip: each page replaces the objects gathered so far
ListAllKeepLast(all, objects) == objects

\* allObjects.push(...result.objects)
ListAllPush(all, objects) == all \o objects

\* a plausible slip: the cursor is followed whether or not the page is
\* truncated
ListAllCursorAlways(result) == result.cursor

\* a plausible slip: a truncated page that names no next page is followed
\* from the first page again
ListAllCursorRestarts(result) ==
    IF result.truncated
    THEN (IF Truthy(result.cursor) THEN result.cursor ELSE Some(<<1>>))
    ELSE None

\* cursor = result.truncated ? result.cursor : undefined
ListAllCursor(result) == IF result.truncated THEN result.cursor ELSE None

\* a plausible slip: the page size is left to the backend's default
ListAllOptionsDefaultSize(prefix, c) ==
    [prefix |-> prefix, delimiter |-> None, cursor |-> c, limit |-> None]

\* the options listAll passes to list
ListAllOptions(prefix, c) ==
    [prefix |-> prefix, delimiter |-> None, cursor |-> c, limit |-> Some(1000)]

ListAllCall ==
    /\ pc = "idle"
    /\ \E prefix \in Prefixes :
          /\ op' = "listAll"
          /\ arg' = [prefix |-> prefix]
          /\ sent' = << ListRequest(ListAllOptions(prefix, None)) >>
    /\ allObjects' = <<>>
    /\ cursor' = None
    /\ pc' = "wait"
    /\ UNCHANGED <<config, resp, outcome, pages>>
    /\ UNCHANGED <<signVars, manyVars, store, logVars>>

\* one turn of the do-while loop: the page arrives, its objects are pushed,
\* and either the next page is requested or listAll returns
ListAllPage ==
    /\ pc = "wait" /\ op = "listAll"
    /\ \E r \in ListResponses(sent[Len(sent)]) :
          LET res == ListOutcome(r) IN
          /\ resp' = Append(resp, r)
          /\ pages' = IF r.kind = "response" /\ r.status = 200
                         /\ PageIndex(sent[Len(sent)]) > Len(pages)
                      THEN Append(pages, r.xml) ELSE pages
          /\ IF res.tag # "ok"
             THEN /\ outcome' = res
                  /\ pc' = "done"
                  /\ UNCHANGED <<allObjects, cursor, sent>>
             ELSE /\ allObjects' = ListAllPush(allObjects, res.value.objects)
                  /\ cursor' = ListAllCursor(res.value)
                  /\ IF Truthy(cursor')
                     THEN /\ sent' = Append(sent,
                                 ListRequest(ListAllOptions(arg.prefix, cursor')))
                          /\ pc' = "wait"
                          /\ outcome' = outcome
                     ELSE /\ outcome' = Ok(allObjects')
                          /\ pc' = "done"
                          /\ sent' = sent
    /\ UNCHANGED <<config, op, arg>>
    /\ UNCHANGED <<signVars, manyVars, store, logVars>>

----------------------------------------------------------------------------
(* list as a call of the service *)

\* the options a caller lists with
ListOptions ==
    { [prefix |-> None, delimiter |-> None, cursor |-> None, limit |-> None],
      [prefix |-> Some(<<"d", "/">>), delimiter |-> Some(<<"/">>),
       cursor |-> None, limit |-> Some(0)],
      [prefix |-> Some(<<"d", "/">>), delimiter |-> Some(<<"/">>),
       cursor |-> Some(<<2>>), limit |-> Some(1000)] }

\* the top-level <Prefix> tag of a list document: absent, empty, or the
\* prefix asked for
TopPrefixes == { None, Some(<< >>), Some(<<"d", "/">>) }

\* the <CommonPrefixes> wrappers of a list document: none, one, two, one
\* whose prefix is the top-level one, an empty one, one whose prefix is the
\* key of an object of the page
CommonPrefixSets ==
    { << >>,
      << <<"d", "/", "a", "/">> >>,
      << <<"d", "/", "a", "/">>, <<"d", "/", "b", "/">> >>,
      << <<"d", "/">> >>,
      << << >> >>,
      << <<"o", "1", "1">> >> }

\* the documents a backend can answer a list request with
ListDocs ==
    { [contents |-> PageContents(1, n), isTruncated |-> e.isTruncated,
       nextToken |-> e.nextToken, prefix |-> t, commonPrefixes |-> c] :
         n \in 0..MaxObjs, e \in PageEnds(1), t \in TopPrefixes,
         c \in CommonPrefixSets }

ListDocResponses ==
    { NetworkFailure }
    \cup { [kind |-> "response", status |-> s, body |-> b] :
              s \in ListStatuses \ {200}, b \in Bodies }
    \cup { [kind |-> "response", status |-> 200, body |-> "", xml |-> x] :
              x \in ListDocs }

ListCall ==
    /\ pc = "idle"
    /\ \E options \in ListOptions :
          /\ op' = "list"
          /\ arg' = [options |-> options]
          /\ sent' = << ListRequest(options) >>
    /\ pc' = "wait"
    /\ UNCHANGED <<config, resp, outcome, allObjects, cursor, pages>>
    /\ UNCHANGED <<signVars, manyVars, store, logVars>>

ListReturn ==
    /\ pc = "wait" /\ op = "list"
    /\ \E r \in ListDocResponses :
          /\ resp' = Append(resp, r)
          /\ outcome' = ListOutcome(r)
    /\ pc' = "done"
    /\ UNCHANGED <<config, op, arg, sent, allObjects, cursor, pages>>
    /\ UNCHANGED <<signVars, manyVars, store, logVars>>

----------------------------------------------------------------------------
(* Connection strings: the URL class as parseR2Url and toR2Url use it      *)
(*                                                                         *)
(* A URL string is a sequence of tokens: a scheme with its colon ("r2:"),  *)
(* the parameter name "publicUrl", single characters, and percent escapes  *)
(* ("%40": three characters).  No token is a hex digit, so a lone "%" is   *)
(* never the start of an escape.                                           *)

SchemeTokens == { "r2:", "R2:", "s3:" }

Letters == { "x", "y", "publicUrl" }

\* the first index of s that holds a member of S; Len(s) + 1 when none does
FirstIn(s, S) ==
    IF \E i \in 1..Len(s) : s[i] \in S
    THEN CHOOSE i \in 1..Len(s) : s[i] \in S /\ \A j \in 1..(i - 1) : s[j] \notin S
    ELSE Len(s) + 1

\* the last index of s that holds c; 0 when none does
LastOf(s, c) ==
    IF \E i \in 1..Len(s) : s[i] = c
    THEN CHOOSE i \in 1..Len(s) : s[i] = c /\ \A j \in (i + 1)..Len(s) : s[j] # c
    ELSE 0

\* s from index i on
From(s, i) == SubSeq(s, i, Len(s))

\* every token t of s replaced by the tokens f[t]
RECURSIVE MapTokens(_, _)
MapTokens(s, f) ==
    IF s = <<>> THEN <<>> ELSE f[Head(s)] \o MapTokens(Tail(s), f)

Tokens == Letters \cup Escapable \cup Escapes \cup SchemeTokens

\* encodeURIComponent: everything but unreserved characters is escaped
EncodeURIComponentMap ==
    [t \in Tokens |-> IF t \in Escapable THEN <<Escape(t)>> ELSE <<t>>]

encodeURIComponent(s) == MapTokens(s, EncodeURIComponentMap)

\* decodeURIComponent: escapes are decoded; a "%" that starts no escape
\* makes it throw URIError
DecodeURIComponentMap ==
    [t \in Tokens |-> IF t \in Escapes THEN <<Unescape(t)>> ELSE <<t>>]

decodeURIComponent(s) ==
    IF \E i \in 1..Len(s) : s[i] = "%" THEN [ok |-> FALSE]
    ELSE [ok |-> TRUE, v |-> MapTokens(s, DecodeURIComponentMap)]

\* the userinfo percent-encode set, of the characters here: space # ? / : = @
UserinfoEncodeMap ==
    [t \in Tokens |->
        IF t \in { " ", "#", "?", "/", ":", "=", "@" } THEN <<Escape(t)>>
        ELSE <<t>>]

\* the path and query percent-encode sets, of the characters here: space
SpaceEncodeMap == [t \in Tokens |-> IF t = " " THEN <<"%20">> ELSE <<t>>]

\* application/x-www-form-urlencoded serializing: space becomes "+",
\* everything but alphanumerics is escaped
FormEncodeMap ==
    [t \in Tokens |->
        IF t = " " THEN <<"+">>
        ELSE IF t \in Escapable THEN <<Escape(t)>> ELSE <<t>>]

\* application/x-www-form-urlencoded parsing: "+" becomes space, escapes
\* are decoded, anything else stays
FormDecodeMap ==
    [t \in Tokens |->
        IF t = "+" THEN <<" ">>
        ELSE IF t \in Escapes THEN <<Unescape(t)>> ELSE <<t>>]

\* leading and trailing spaces are removed before a URL is parsed
RECURSIVE TrimSpaces(_)
TrimSpaces(s) ==
    IF s # <<>> /\ Head(s) = " " THEN TrimSpaces(Tail(s))
    ELSE IF s # <<>> /\ s[Len(s)] = " " THEN TrimSpaces(SubSeq(s, 1, Len(s) - 1))
    ELSE s

UrlFailure == [ok |-> FALSE]

\* the scheme of a string and what follows it: a scheme token, or letters
\* before a colon (some other scheme); a string without one is no URL
SchemeSplit(s) ==
    IF s # <<>> /\ Head(s) \in SchemeTokens
    THEN [ok |-> TRUE,
          scheme |-> IF Head(s) = "R2:" THEN "r2:" ELSE Head(s),
          rest |-> Tail(s)]
    ELSE LET c == FirstIn(s, {":"}) IN
         IF c > 1 /\ c <= Len(s) /\ \A i \in 1..(c - 1) : s[i] \in {"x", "y"}
         THEN [ok |-> TRUE, scheme |-> "other:", rest |-> From(s, c + 1)]
         ELSE UrlFailure

\* path, query and fragment of what follows the authority
PathQueryFragment(tail) ==
    LET q == FirstIn(tail, {"?", "#"})
        afterPath == From(tail, q)
        h == FirstIn(afterPath, {"#"})
    IN [path |-> MapTokens(SubSeq(tail, 1, q - 1), SpaceEncodeMap),
        query |-> IF afterPath # <<>> /\ Head(afterPath) = "?"
                  THEN Some(MapTokens(SubSeq(afterPath, 2, h - 1), SpaceEncodeMap))
                  ELSE None,
        fragment |-> IF h <= Len(afterPath) THEN Some(From(afterPath, h + 1))
                     ELSE None]

\* new URL(s) for a scheme that is not special: credentials, opaque host,
\* path and query; a failure where the URL parser fails
ParseURL(input) ==
    LET sp == SchemeSplit(TrimSpaces(input)) IN
    IF ~sp.ok THEN UrlFailure
    ELSE
    LET r == sp.rest IN
    IF Len(r) >= 2 /\ r[1] = "/" /\ r[2] = "/"
    THEN LET a == From(r, 3)
             e == FirstIn(a, {"/", "?", "#"})
             auth == SubSeq(a, 1, e - 1)
             at == LastOf(auth, "@")
             userinfo == SubSeq(auth, 1, at - 1)
             hostport == From(auth, at + 1)
             c == FirstIn(userinfo, {":"})
             p == FirstIn(hostport, {":"})
             host == SubSeq(hostport, 1, p - 1)
             port == From(hostport, p + 1)
             pqf == PathQueryFragment(From(a, e))
         IN IF \/ (at > 0 /\ hostport = <<>>)
               \/ (p <= Len(hostport) /\ host = <<>>)
               \/ port # <<>>
               \/ \E i \in 1..Len(host) : host[i] = " "
            THEN UrlFailure
            ELSE [ok |-> TRUE, scheme |-> sp.scheme,
                  username |-> MapTokens(SubSeq(userinfo, 1, c - 1),
                                         UserinfoEncodeMap),
                  password |-> MapTokens(From(userinfo, c + 1),
                                         UserinfoEncodeMap),
                  host |-> Some(host), path |-> pqf.path, query |-> pqf.query,
                  fragment |-> pqf.fragment]
    ELSE LET pqf == PathQueryFragment(r)
         IN [ok |-> TRUE, scheme |-> sp.scheme, username |-> <<>>,
             password |-> <<>>, host |-> None, path |-> pqf.path,
             query |-> pqf.query, fragment |-> pqf.fragment]

\* the name/value pairs of a query string, decoded
RECURSIVE ParseQuery(_)
ParseQuery(q) ==
    IF q = <<>> THEN <<>>
    ELSE LET a == FirstIn(q, {"&"})
             piece == SubSeq(q, 1, a - 1)
             e == FirstIn(piece, {"="})
         IN (IF piece = <<>> THEN <<>>
             ELSE << << MapTokens(SubSeq(piece, 1, e - 1), FormDecodeMap),
                        MapTokens(From(piece, e + 1), FormDecodeMap) >> >>)
            \o ParseQuery(From(q, a + 1))

SearchParams(url) == IF url.query.has THEN ParseQuery(url.query.v) ELSE <<>>

\* searchParams.get(name): the first value of that name, or null
SearchParamsGet(url, name) ==
    LET ps == SearchParams(url) IN
    IF \E i \in 1..Len(ps) : ps[i][1] = name
    THEN Some(ps[CHOOSE i \in 1..Len(ps) :
                    ps[i][1] = name /\ \A j \in 1..(i - 1) : ps[j][1] # name][2])
    ELSE None

\* the query string of a list of pairs
RECURSIVE SerializeQuery(_)
SerializeQuery(ps) ==
    IF ps = <<>> THEN <<>>
    ELSE MapTokens(Head(ps)[1], FormEncodeMap) \o <<"=">>
         \o MapTokens(Head(ps)[2], FormEncodeMap)
         \o (IF Len(ps) > 1 THEN <<"&">> ELSE <<>>)
         \o SerializeQuery(Tail(ps))

\* searchParams.set(name, value): the first pair of that name gets the
\* value and the others of that name go, or the pair is appended; the
\* URL's query becomes the serialized list
SearchParamsSet(url, name, value) ==
    LET ps == SearchParams(url)
        first == FirstIn([i \in 1..Len(ps) |-> ps[i][1]], {name})
        kept == SelectSeq([i \in 1..Len(ps) |->
                              IF i = first THEN <<name, value>>
                              ELSE IF ps[i][1] = name THEN <<>> ELSE ps[i]],
                          LAMBDA x : x # <<>>)
        set == IF first <= Len(ps) THEN kept ELSE Append(ps, <<name, value>>)
    IN [url EXCEPT !.query = Some(SerializeQuery(set))]

\* the username and password setters do nothing on a URL without a host
CannotHaveCredentials(url) == ~url.host.has \/ url.host.v = <<>>

SetUsername(url, v) ==
    IF CannotHaveCredentials(url) THEN url
    ELSE [url EXCEPT !.username = MapTokens(v, UserinfoEncodeMap)]

SetPassword(url, v) ==
    IF CannotHaveCredentials(url) THEN url
    ELSE [url EXCEPT !.password = MapTokens(v, UserinfoEncodeMap)]

\* url.toString()
SerializeURL(url) ==
    << url.scheme >>
    \o (IF url.host.has
        THEN <<"/", "/">>
             \o (IF url.username # <<>> \/ url.password # <<>>
                 THEN url.username
                      \o (IF url.password # <<>> THEN <<":">> \o url.password
                          ELSE <<>>)
                      \o <<"@">>
                 ELSE <<>>)
             \o url.host.v
        ELSE <<>>)
    \o url.path
    \o (IF url.query.has THEN <<"?">> \o url.query.v ELSE <<>>)
    \o (IF url.fragment.has THEN <<"#">> \o url.fragment.v ELSE <<>>)

----------------------------------------------------------------------------
(* parseR2Url and toR2Url *)

Throw(name) == [tag |-> name]

\* a plausible slip: the bucket is left out of the required-field check
RequiredMissingNoBucket(accessKeyId, secretAccessKey, accountId, bucket) ==
    accessKeyId = <<>> \/ secretAccessKey = <<>> \/ accountId = <<>>

\* !accessKeyId || !secretAccessKey || !accountId || !bucket
RequiredMissing(accessKeyId, secretAccessKey, accountId, bucket) ==
    accessKeyId = <<>> \/ secretAccessKey = <<>> \/ accountId = <<>>
        \/ bucket = <<>>

parseR2Url(url) ==
    LET parsed == ParseURL(url) IN
    IF ~parsed.ok THEN Throw("TypeError")
    ELSE IF parsed.scheme # "r2:" THEN Throw("Error")
    ELSE
    LET accessKeyId == decodeURIComponent(parsed.username)
        secretAccessKey == decodeURIComponent(parsed.password)
        accountId == OrElse(parsed.host, <<>>)
        bucket == From(parsed.path, 2)
        publicUrl == SearchParamsGet(parsed, <<"publicUrl">>)
    IN IF ~accessKeyId.ok \/ ~secretAccessKey.ok THEN Throw("URIError")
       ELSE IF RequiredMissing(accessKeyId.v, secretAccessKey.v, accountId,
                               bucket)
       THEN Throw("Error")
       ELSE Ok([accountId |-> accountId, accessKeyId |-> accessKeyId.v,
                secretAccessKey |-> secretAccessKey.v, bucket |-> bucket,
                publicUrl |-> publicUrl])

toR2Url(c) ==
    LET url == ParseURL(<<"r2:", "/", "/">> \o c.accountId \o <<"/">> \o c.bucket)
    IN IF ~url.ok THEN Throw("TypeError")
       ELSE LET u1 == SetUsername(url, encodeURIComponent(c.accessKeyId))
                u2 == SetPassword(u1, encodeURIComponent(c.secretAccessKey))
                u3 == IF Truthy(c.publicUrl)
                      THEN SearchParamsSet(u2, <<"publicUrl">>, c.publicUrl.v)
                      ELSE u2
            IN Ok(SerializeURL(u3))

----------------------------------------------------------------------------
(* signRequest *)

\* two calls of signRequest, to compare
Runs == { 1, 2 }

SignIdle == [pc |-> "idle"]

\* the hex digest of a message: a value of the message alone
sha256(message) == <<"sha256", message>>

\* crypto.subtle.sign("HMAC", key, message)
hmacSha256(key, message) == <<"hmac", key, message>>

toHex(buffer) == <<"hex", buffer>>

\* the instant a clock reading stands for, on a calendar scaled down to two
\* milliseconds a second and two seconds a day
Instant(t) == [day |-> t \div 4, second |-> (t \div 2) % 2, ms |-> t % 2]

\* now.toISOString().replace(/[:-]|\.\d{3}/g, ""): the date and the time
\* of day, without the milliseconds
AmzDate(now) == << Instant(now).day, Instant(now).second >>

\* amzDate.slice(0, 8)
DateStamp(amzDate) == amzDate[1]

getSignatureKey(secretKey, dateStamp, region, service) ==
    hmacSha256(hmacSha256(hmacSha256(hmacSha256(<<"AWS4", secretKey>>, dateStamp),
                                     region), service), "aws4_request")

\* k.toLowerCase() of the header names callers pass
LowerCase(k) ==
    CASE k = "Content-Type" -> "content-type"
      [] k = "Cache-Control" -> "cache-control"
      [] OTHER -> k

\* the header names that occur, in the order Array.prototype.sort puts them
HeaderOrder ==
    << "cache-control", "content-type", "host", "x-amz-content-sha256",
       "x-amz-date" >>

\* obj[k] = v on a list of name/value pairs: a name that is there keeps its
\* place and takes the value, a new name goes last
Assign(hs, k, v) ==
    IF \E i \in 1..Len(hs) : hs[i][1] = k
    THEN [i \in 1..Len(hs) |-> IF hs[i][1] = k THEN <<k, v>> ELSE hs[i]]
    ELSE Append(hs, <<k, v>>)

\* the headers under lower-cased names, assigned in entry order
RECURSIVE NormalizedHeaders(_)
NormalizedHeaders(entries) ==
    IF entries = <<>> THEN << >>
    ELSE LET last == entries[Len(entries)]
         IN Assign(NormalizedHeaders(SubSeq(entries, 1, Len(entries) - 1)),
                   LowerCase(last[1]), last[2])

\* the value of header k in a list of name/value pairs
HeaderValue(hs, k) == hs[CHOOSE i \in 1..Len(hs) : hs[i][1] = k][2]

HasHeader(hs, k) == \E i \in 1..Len(hs) : hs[i][1] = k

\* { ...normalizedHeaders, host, "x-amz-date", "x-amz-content-sha256" }
SignedHeaders(input, amzDate, payloadHash) ==
    Assign(Assign(Assign(NormalizedHeaders(input.headers),
                         "host", <<input.url.host>>),
                  "x-amz-date", amzDate),
           "x-amz-content-sha256", payloadHash)

\* Object.keys(signedHeaders).sort()
SortedHeaderKeys(hs) == SelectSeq(HeaderOrder, LAMBDA k : HasHeader(hs, k))

\* `${k}:${signedHeaders[k]?.trim()}` for the sorted keys
CanonicalHeaders(hs) ==
    [i \in 1..Len(SortedHeaderKeys(hs)) |->
        LET k == SortedHeaderKeys(hs)[i]
            v == HeaderValue(hs, k)
        IN << k, IF k \in {"x-amz-date", "x-amz-content-sha256"} THEN v
                 ELSE TrimSpaces(v) >>]

\* search.slice(1)
CanonicalQuerystring(search) == IF search = << >> THEN << >> ELSE Tail(search)

CanonicalRequest(input, hs, payloadHash) ==
    << input.method, input.url.pathname, CanonicalQuerystring(input.url.search),
       CanonicalHeaders(hs), SortedHeaderKeys(hs), payloadHash >>

CredentialScope(dateStamp, region) ==
    << dateStamp, region, "s3", "aws4_request" >>

StringToSign(amzDate, scope, canonicalRequest) ==
    << "AWS4-HMAC-SHA256", amzDate, scope, sha256(canonicalRequest) >>

\* the inputs of the calls compared
SignInputs ==
    [method : { "GET", "PUT" },
     url : { [host |-> "acct.r2.cloudflarestorage.com", pathname |-> "/bkt/k",
              search |-> << >>],
             [host |-> "acct.r2.cloudflarestorage.com", pathname |-> "/bkt",
              search |-> << "?", "list-type=2" >>] },
     headers : { << >>,
                 << <<"Content-Type", <<" ", "t", " ">> >> >>,
                 << <<"content-type", <<"t">> >>,
                    <<"Content-Type", <<"u">> >> >> },
     body : { "hi" },
     accessKeyId : { "AK" }, secretAccessKey : { "SK" }, region : { "auto" }]

\* a plausible slip: new Date() is called again where the time is used
SignTimeRead(r) == clock

\* the time the derived values of call r are computed from: now, captured
\* once at the start of the call
SignTime(r) == signing[r].now

\* the clock moves on while calls are suspended
Tick ==
    /\ clock < MaxClock
    /\ clock' = clock + 1
    /\ UNCHANGED <<clientVars, manyVars, store, signing, logVars>>

\* the call starts: the clock is read, and the body's hash is awaited
SignStart(r) ==
    /\ signing[r].pc = "idle"
    /\ \E input \in SignInputs :
          signing' = [signing EXCEPT
                         ![r] = [pc |-> "hashing", input |-> input,
                                 now |-> clock]]
    /\ UNCHANGED <<clientVars, manyVars, store, clock, logVars>>

\* the payload hash is there: headers, canonical request and string to sign
\* are built, and the canonical request's hash is awaited
SignCanonical(r) ==
    /\ signing[r].pc = "hashing"
    /\ LET input == signing[r].input
           amzDate == AmzDate(SignTime(r))
           payloadHash == sha256(input.body)
           hs == SignedHeaders(input, amzDate, payloadHash)
           scope == CredentialScope(DateStamp(amzDate), input.region)
       IN signing' = [signing EXCEPT
              ![r] = [pc |-> "keying", input |-> input, now |-> signing[r].now,
                      signedHeaders |-> hs, scope |-> scope,
                      stringToSign |->
                          StringToSign(amzDate, scope,
                              CanonicalRequest(input, hs, payloadHash))]]
    /\ UNCHANGED <<clientVars, manyVars, store, clock, logVars>>

\* the signing key is derived, the signature taken, and the call returns
\* the url with the signed headers and the Authorization header
SignFinish(r) ==
    /\ signing[r].pc = "keying"
    /\ LET input == signing[r].input
           dateStamp == DateStamp(AmzDate(SignTime(r)))
           signingKey == getSignatureKey(input.secretAccessKey, dateStamp,
                                         input.region, "s3")
           signature == toHex(hmacSha256(signingKey, signing[r].stringToSign))
           authorization ==
               << "AWS4-HMAC-SHA256", input.accessKeyId, signing[r].scope,
                  SortedHeaderKeys(signing[r].signedHeaders), signature >>
       IN signing' = [signing EXCEPT
              ![r] = [pc |-> "done", input |-> input, now |-> signing[r].now,
                      out |-> [url |-> input.url,
                               headers |-> signing[r].signedHeaders,
                               Authorization |-> authorization]]]
    /\ UNCHANGED <<clientVars, manyVars, store, clock, logVars>>

\* the caller has taken the signed request
SignReturn(r) ==
    /\ signing[r].pc = "done"
    /\ signing' = [signing EXCEPT ![r] = SignIdle]
    /\ UNCHANGED <<clientVars, manyVars, store, clock, logVars>>

SignNext ==
    \/ Tick
    \/ \E r \in Runs : SignStart(r)
    \/ \E r \in Runs : SignCanonical(r)
    \/ \E r \in Runs : SignFinish(r)
    \/ \E r \in Runs : SignReturn(r)

----------------------------------------------------------------------------
(* The specification *)

\* no Logger has been made, and no send is in progress
LogIdle ==
    /\ loggers = << >>
    /\ clientCache = {}
    /\ ingested = << >>
    /\ flushes = 0
    /\ timer = "none"

Init ==
    /\ LogIdle
    /\ config \in Configs
    /\ op = "idle"
    /\ pc = "idle"
    /\ arg = [key |-> <<>>]
    /\ sent = <<>>
    /\ resp = <<>>
    /\ outcome = NoOutcome
    /\ allObjects = <<>>
    /\ cursor = None
    /\ pages = <<>>
    /\ clock = 0
    /\ signing = [r \in Runs |-> SignIdle]
    /\ queue = 1
    /\ inFlight = {}
    /\ answered = {}
    /\ store = << >>

\* the caller has taken the result; the client holds no state between calls
Finish ==
    /\ pc = "done"
    /\ op' = "idle"
    /\ pc' = "idle"
    /\ arg' = [key |-> <<>>]
    /\ sent' = <<>>
    /\ resp' = <<>>
    /\ outcome' = NoOutcome
    /\ allObjects' = <<>>
    /\ cursor' = None
    /\ pages' = <<>>
    /\ UNCHANGED config
    /\ UNCHANGED <<signVars, manyVars, store, logVars>>

Next ==
    \/ DeleteCall
    \/ DeleteReturn
    \/ HeadCall
    \/ HeadReturn
    \/ ExistsCall
    \/ ExistsReturn
    \/ PutCall
    \/ PutReturn
    \/ \E kind \in { "get", "getText", "getJson" } : GetCall(kind)
    \/ GetReturn
    \/ GetPublicUrlCall
    \/ ListCall
    \/ ListReturn
    \/ ListAllCall
    \/ ListAllPage
    \/ Finish

Spec == Init /\ [][Next]_vars

\* the transport answers every list request in the end (with a page, an
\* error status or a failure) and the runtime then resumes listAll
FairSpec == Spec /\ WF_vars(ListAllPage)

----------------------------------------------------------------------------
(* The connection-string functions, applied to inputs drawn from small sets *)

\* the parts a connection string is put together from; any may be missing
UrlParts ==
    [scheme : { <<"r2:">>, <<"R2:">>, <<"s3:">>, <<>> },
     slashes : { <<"/", "/">>, <<>> },
     user : { <<>>, <<"x">>, <<"%40", "%">> },
     colon : { <<":">>, <<>> },
     pass : { <<>>, <<"y">>, <<"%3A", "y">> },
     at : { <<"@">>, <<>> },
     host : { <<>>, <<"x">>, <<"x", " ">> },
     slash : { <<"/">>, <<>> },
     bucket : { <<>>, <<"y">>, <<"y", "/", "x">> },
     query : { <<>>, <<"?", "publicUrl", "=", "x", "%2F">> }]

UrlString(p) ==
    p.scheme \o p.slashes \o p.user \o p.colon \o p.pass \o p.at \o p.host
        \o p.slash \o p.bucket \o p.query

\* descriptors with all four required fields non-empty
Credentials ==
    { <<"x">>, <<"x", "@", ":">>, <<"/", "?", "#">>, <<"%", " ", "+">>,
      <<"&", "=", "y">> }

AccountIds == { <<"x">>, <<"y", "x">>, <<"x", "@", "y">>, <<"x", ":">> }

Buckets ==
    { <<"y">>, <<"y", "x">>, <<"y", "/", "x">>, <<"y", "#", "x">>,
      <<"y", "?", "x">>, <<"y", " ", "x">> }

PublicUrlValues ==
    { None, Some(<<>>), Some(<<"x", ":", "/", "/", "y", "/">>),
      Some(<<"y", "?", "x", "=", "+", "&", "%", " ">>) }

Descriptors ==
    [accountId : AccountIds, accessKeyId : Credentials,
     secretAccessKey : Credentials, bucket : Buckets,
     publicUrl : PublicUrlValues]

UrlInit == Init /\ config.publicUrl = None

ParseCall ==
    /\ pc = "idle"
    /\ \E p \in UrlParts :
          /\ op' = "parseR2Url"
          /\ arg' = [parts |-> p, url |-> UrlString(p)]
          /\ outcome' = parseR2Url(UrlString(p))
    /\ pc' = "done"
    /\ UNCHANGED <<config, sent, resp, allObjects, cursor, pages>>
    /\ UNCHANGED <<signVars, manyVars, store, logVars>>

\* parseR2Url(toR2Url(d))
RoundTripCall ==
    /\ pc = "idle"
    /\ \E d \in Descriptors :
          LET u == toR2Url(d) IN
          /\ op' = "roundTrip"
          /\ arg' = [d |-> d, url |-> u]
          /\ outcome' = IF u.tag = "ok" THEN parseR2Url(u.value) ELSE u
    /\ pc' = "done"
    /\ UNCHANGED <<config, sent, resp, allObjects, cursor, pages>>
    /\ UNCHANGED <<signVars, manyVars, store, logVars>>

UrlNext ==
    \/ ParseCall
    \/ RoundTripCall
    \/ Finish

SpecUrl == UrlInit /\ [][UrlNext]_vars

SpecSign == UrlInit /\ [][SignNext]_vars

----------------------------------------------------------------------------
(* deleteMany: Effect.forEach(keys, service.delete, { concurrency: 10,     *)
(* discard: true }) against a bucket                                       *)

\* the fan-out limit of deleteMany
Concurrency == 10

\* the numbers of keys deleteMany is called with; key i is the i-th of them,
\* and the keys are distinct
KeyCounts == { 0, 1, 2, MaxKeys }

\* an object of the bucket
StoredObject == Some("object")

\* the buckets deleteMany runs against: every key stored, or every second
ManyBuckets ==
    { [k \in 1..MaxKeys |-> StoredObject],
      [k \in 1..MaxKeys |-> IF k % 2 = 0 THEN StoredObject ELSE None] }

\* the answers to the DELETE of key k: a failure, an error, done (also
\* when nothing was stored), or not found when nothing is stored
ManyResponses(k) ==
    { NetworkFailure, Response(204, None, ""), Response(500, None, "AccessDenied") }
    \cup (IF store[k].has THEN {} ELSE { Response(404, None, "") })

\* a plausible slip: no limit on the deletes in flight
CanStartUnbounded == queue <= arg.keys

\* a worker of forEach is free and a key is left to take
CanStart == queue <= arg.keys /\ Cardinality(inFlight) < Concurrency

\* a plausible slip: the failure of one delete is swallowed
ForEachIgnoresFailure(o) == FALSE

\* forEach fails as soon as one of its effects fails
ForEachFails(o) == o.tag # "ok"

ManyInit ==
    /\ LogIdle
    /\ config \in { c \in Configs : c.publicUrl = None }
    /\ op = "idle" /\ pc = "idle"
    /\ arg = [key |-> <<>>]
    /\ sent = <<>> /\ resp = <<>>
    /\ outcome = NoOutcome
    /\ allObjects = <<>> /\ cursor = None /\ pages = <<>>
    /\ clock = 0 /\ signing = [r \in Runs |-> SignIdle]
    /\ queue = 1 /\ inFlight = {} /\ answered = {}
    /\ store \in ManyBuckets

\* deleteMany(keys) is called; with no keys it is done at once
DeleteManyCall ==
    /\ pc = "idle"
    /\ \E n \in KeyCounts :
          /\ op' = "deleteMany"
          /\ arg' = [keys |-> n]
          /\ pc' = IF n = 0 THEN "done" ELSE "wait"
          /\ outcome' = IF n = 0 THEN Ok("void") ELSE outcome
    /\ queue' = 1 /\ inFlight' = {} /\ answered' = {}
    /\ UNCHANGED <<config, sent, resp, allObjects, cursor, pages>>
    /\ UNCHANGED <<signVars, store, logVars>>

\* a free worker takes the next key and issues its DELETE
DeleteManyStart ==
    /\ pc = "wait" /\ op = "deleteMany"
    /\ CanStart
    /\ inFlight' = inFlight \cup { queue }
    /\ queue' = queue + 1
    /\ UNCHANGED <<clientVars, signVars, answered, store, logVars>>

\* the DELETE of key k is answered: on success the object is gone and the
\* worker is free again, and deleteMany returns when no key is left; on
\* failure deleteMany fails and the deletes in flight are interrupted
DeleteManyAnswer(k) ==
    /\ pc = "wait" /\ op = "deleteMany"
    /\ k \in inFlight
    /\ \E r \in ManyResponses(k) :
          LET o == DeleteOutcome(r) IN
          IF ForEachFails(o)
          THEN /\ outcome' = o
               /\ pc' = "done"
               /\ inFlight' = {}
               /\ UNCHANGED <<answered, store>>
          ELSE /\ inFlight' = inFlight \ { k }
               /\ answered' = IF o.tag = "ok" THEN answered \cup { k }
                              ELSE answered
               /\ store' = IF o.tag = "ok" THEN [store EXCEPT ![k] = None]
                            ELSE store
               /\ pc' = IF queue > arg.keys /\ inFlight' = {} THEN "done"
                        ELSE "wait"
               /\ outcome' = IF queue > arg.keys /\ inFlight' = {}
                             THEN Ok("void") ELSE outcome
    /\ UNCHANGED <<config, op, arg, sent, resp, allObjects, cursor, pages>>
    /\ UNCHANGED <<signVars, queue, logVars>>

ManyNext ==
    \/ DeleteManyCall
    \/ DeleteManyStart
    \/ \E k \in 1..MaxKeys : DeleteManyAnswer(k)

SpecMany == ManyInit /\ [][ManyNext]_vars

----------------------------------------------------------------------------
(* copy: get, head, then put, against a bucket *)

CopyKeys == { <<"k">>, <<"d", "/", "k">> }

\* what the bucket can store under a key: nothing, an object put with a
\* content type and custom metadata, or one put with neither
CopyObjects ==
    { None,
      Some([bytes |-> <<7, 8>>, contentType |-> Some("text/plain"),
            customMetadata |-> Some({ <<"source", "test">> })]),
      Some([bytes |-> <<9>>, contentType |-> None,
            customMetadata |-> None]) }

CopyInit ==
    /\ LogIdle
    /\ config \in { c \in Configs : c.publicUrl = None }
    /\ op = "idle" /\ pc = "idle"
    /\ arg = [key |-> <<>>]
    /\ sent = <<>> /\ resp = <<>>
    /\ outcome = NoOutcome
    /\ allObjects = <<>> /\ cursor = None /\ pages = <<>>
    /\ clock = 0 /\ signing = [r \in Runs |-> SignIdle]
    /\ queue = 1 /\ inFlight = {} /\ answered = {}
    /\ store \in [CopyKeys -> CopyObjects]

\* the answers to the GET of a key: a failure, an error, not found when
\* nothing is stored, or the stored bytes
CopyGetResponses(key) ==
    { NetworkFailure,
      [kind |-> "response", status |-> 500, body |-> "AccessDenied",
       bytes |-> <<>>, readable |-> TRUE] }
    \cup (IF store[key].has
          THEN { [kind |-> "response", status |-> 200, body |-> "",
                  bytes |-> store[key].v.bytes, readable |-> a] :
                    a \in BOOLEAN }
          ELSE { [kind |-> "response", status |-> 404, body |-> "NoSuchKey",
                  bytes |-> <<>>, readable |-> TRUE] })

\* the answers to the HEAD of a key; the headers of a stored object include
\* its content type and an x-amz-meta-* header per custom metadata entry
CopyHeadResponses(key) ==
    { NetworkFailure,
      [kind |-> "response", status |-> 500, etag |-> None, body |-> "",
       contentLength |-> None, lastModified |-> None, contentType |-> None,
       meta |-> None] }
    \cup (IF store[key].has
          THEN { [kind |-> "response", status |-> 200,
                  etag |-> Some(<<Quote, "e", Quote>>), body |-> "",
                  contentLength |-> Some(Len(store[key].v.bytes)),
                  lastModified |-> Some("Wed"),
                  contentType |-> store[key].v.contentType,
                  meta |-> store[key].v.customMetadata] }
          ELSE { [kind |-> "response", status |-> 404, etag |-> None,
                  body |-> "", contentLength |-> None, lastModified |-> None,
                  contentType |-> None, meta |-> None] })

CopyPutResponses ==
    { NetworkFailure, Response(500, None, "AccessDenied"),
      Response(200, Some(<<Quote, "e", Quote>>), "") }

\* the value of a property of an object: undefined when it was never set
Property(object, name) ==
    IF name \in DOMAIN object THEN object[name] ELSE None

\* the options copy passes to put
CopyOptions(sourceMeta) ==
    [contentType |-> sourceMeta.httpMetadata.contentType,
     cacheControl |-> None, contentDisposition |-> None,
     customMetadata |-> Property(sourceMeta, "customMetadata")]

\* the value of a header of a request, undefined when it is not sent
RequestHeader(req, name) ==
    IF \E h \in req.headers : h[1] = name
    THEN Some((CHOOSE h \in req.headers : h[1] = name)[2])
    ELSE None

\* the x-amz-meta-* headers of a request, as name/value pairs
RequestMeta(req) ==
    { << h[1][2], h[2] >> :
        h \in { g \in req.headers : Len(g[1]) = 2 /\ g[1][1] = "x-amz-meta-" } }

\* what the bucket stores for a PUT it answers 2xx
PutStores(req) ==
    Some([bytes |-> req.body,
          contentType |-> RequestHeader(req, <<"content-type">>),
          customMetadata |-> IF RequestMeta(req) = {} THEN None
                             ELSE Some(RequestMeta(req))])

\* a descriptor without metadata
NoMeta == [httpMetadata |-> [contentType |-> None]]

\* the value an effect succeeded with; a step reached after a failure (which
\* yield* rules out) would see nothing
ValueOr(o, nothing) == IF o.tag = "ok" THEN o.value ELSE nothing

\* a plausible slip: copy goes on to the next step whatever the last one
\* ended with
CopyGoesOnAlways(o) == TRUE

\* yield*: the generator goes on only when the effect succeeded
CopyGoesOn(o) == o.tag = "ok"

\* copy(sourceKey, destKey) is called: the GET of the source is issued
CopyCall ==
    /\ pc = "idle"
    /\ \E sourceKey \in CopyKeys, destKey \in CopyKeys :
          /\ op' = "copy"
          /\ arg' = [sourceKey |-> sourceKey, destKey |-> destKey,
                     source |-> store[sourceKey], before |-> store[destKey]]
          /\ sent' = << ObjectRequest("GET", sourceKey) >>
    /\ pc' = "wait"
    /\ UNCHANGED <<config, resp, outcome, allObjects, cursor, pages>>
    /\ UNCHANGED <<signVars, manyVars, store, logVars>>

\* the GET is answered: copy fails with the error of get, or issues the
\* HEAD of the source
CopyGetReturn ==
    /\ pc = "wait" /\ op = "copy" /\ Len(sent) = 1
    /\ \E r \in CopyGetResponses(arg.sourceKey) :
          LET data == GetOutcome(arg.sourceKey, r) IN
          /\ resp' = Append(resp, r)
          /\ IF CopyGoesOn(data)
             THEN /\ sent' = Append(sent, ObjectRequest("HEAD", arg.sourceKey))
                  /\ UNCHANGED <<pc, outcome>>
             ELSE /\ outcome' = data
                  /\ pc' = "done"
                  /\ UNCHANGED sent
    /\ UNCHANGED <<config, op, arg, allObjects, cursor, pages>>
    /\ UNCHANGED <<signVars, manyVars, store, logVars>>

\* the HEAD is answered: copy fails with the error of head, or issues the
\* PUT of the destination with the bytes of get and the metadata of head
CopyHeadReturn ==
    /\ pc = "wait" /\ op = "copy" /\ Len(sent) = 2
    /\ \E r \in CopyHeadResponses(arg.sourceKey) :
          LET data == GetOutcome(arg.sourceKey, resp[1])
              sourceMeta == HeadOutcome(arg.sourceKey, r)
          IN
          /\ resp' = Append(resp, r)
          /\ IF CopyGoesOn(sourceMeta)
             THEN /\ sent' = Append(sent,
                        PutRequest(arg.destKey,
                            BodyBytes([type |-> "ArrayBuffer",
                                       bytes |-> ValueOr(data, <<>>)]),
                            CopyOptions(ValueOr(sourceMeta, NoMeta))))
                  /\ UNCHANGED <<pc, outcome>>
             ELSE /\ outcome' = sourceMeta
                  /\ pc' = "done"
                  /\ UNCHANGED sent
    /\ UNCHANGED <<config, op, arg, allObjects, cursor, pages>>
    /\ UNCHANGED <<signVars, manyVars, store, logVars>>

\* the PUT is answered: on 2xx the bucket stores what the request carried,
\* and copy returns what put returns
CopyPutReturn ==
    /\ pc = "wait" /\ op = "copy" /\ Len(sent) = 3
    /\ \E r \in CopyPutResponses :
          LET data == GetOutcome(arg.sourceKey, resp[1])
              sourceMeta == HeadOutcome(arg.sourceKey, resp[2])
              bodyBytes == BodyBytes([type |-> "ArrayBuffer",
                                      bytes |-> ValueOr(data, <<>>)])
              options == CopyOptions(ValueOr(sourceMeta, NoMeta))
          IN
          /\ resp' = Append(resp, r)
          /\ outcome' = PutOutcome(arg.destKey, bodyBytes, options, r)
          /\ store' = IF r.kind = "response" /\ IsSuccessStatus(r.status)
                      THEN [store EXCEPT ![arg.destKey] = PutStores(sent[3])]
                      ELSE store
    /\ pc' = "done"
    /\ UNCHANGED <<config, op, arg, sent, allObjects, cursor, pages>>
    /\ UNCHANGED <<signVars, manyVars, logVars>>

CopyNext ==
    \/ CopyCall
    \/ CopyGetReturn
    \/ CopyHeadReturn
    \/ CopyPutReturn

SpecCopy == CopyInit /\ [][CopyNext]_vars

\* another client of the bucket overwrites or deletes an object; the bucket
\* has no locking, so this can happen between any two steps of a copy
OtherWrite ==
    /\ \E key \in CopyKeys, object \in CopyObjects :
          /\ store[key] # object
          /\ store' = [store EXCEPT ![key] = object]
    /\ UNCHANGED <<clientVars, signVars, manyVars, logVars>>

RaceNext ==
    \/ CopyNext
    \/ OtherWrite

SpecRace == CopyInit /\ [][RaceNext]_vars

\* the operations that read or remove one object or list the bucket, and
\* copy, one call after another against the same bucket
ReadNext ==
    \/ \E kind \in { "get", "getText", "getJson" } : GetCall(kind)
    \/ GetReturn
    \/ HeadCall
    \/ HeadReturn
    \/ ExistsCall
    \/ ExistsReturn
    \/ DeleteCall
    \/ DeleteReturn
    \/ ListCall
    \/ ListReturn
    \/ CopyNext
    \/ Finish

SpecReads == CopyInit /\ [][ReadNext]_vars

\* every operation that issues requests, one call after another
CallNext ==
    \/ ReadNext
    \/ PutCall
    \/ PutReturn
    \/ ListAllCall
    \/ ListAllPage

SpecCalls == CopyInit /\ [][CallNext]_vars

----------------------------------------------------------------------------
(* R2FromEnv and loadR2Config: where the configuration comes from          *)

\* a connection string that parses, and one of another scheme
GoodUrl == <<"r2:", "/", "/", "x", ":", "y", "@", "x", "/", "y">>

OtherUrl == <<"s3:", "/", "/", "x", ":", "y", "@", "x", "/", "y">>

\* process.env: every variable is unset, empty or set
Envs ==
    [R2_URL : { None, Some(<<>>), Some(GoodUrl), Some(OtherUrl) },
     R2_ACCOUNT_ID : { None, Some(<<>>), Some(<<"y">>) },
     R2_ACCESS_KEY_ID : { None, Some(<<"x">>) },
     R2_SECRET_ACCESS_KEY : { None, Some(<<"x">>) },
     R2_BUCKET : { None, Some(<<"y">>) },
     R2_PUBLIC_URL : { None, Some(<<"x">>) }]

\* ~/.config/1focus/r2.env: missing, unreadable, or its lines; a line that
\* sets R2_URL begins with the token "R2_URL="
ConfigFiles ==
    { [exists |-> FALSE], [exists |-> TRUE, readable |-> FALSE] }
    \cup { [exists |-> TRUE, readable |-> TRUE, lines |-> ls] :
             ls \in { << <<"R2_URL=">> \o GoodUrl, << >> >>,
                      << <<"#">>, <<" ", "R2_URL=", " ">> \o GoodUrl \o <<" ">> >>,
                      << <<"R2_URL=">> \o OtherUrl, <<"R2_URL=">> \o GoodUrl >>,
                      << <<"x", "=", "y">> >>,
                      << << >> >> } }

R2ConfigError(message) == [tag |-> "R2ConfigError", message |-> message]

\* the layer R2Live makes of a configuration
R2Live(c) == [layer |-> "R2", config |-> c]

\* !accountId || !accessKeyId || !secretAccessKey || !bucket
EnvIncomplete(env) ==
    \/ ~Truthy(env.R2_ACCOUNT_ID)
    \/ ~Truthy(env.R2_ACCESS_KEY_ID)
    \/ ~Truthy(env.R2_SECRET_ACCESS_KEY)
    \/ ~Truthy(env.R2_BUCKET)

\* { accountId, accessKeyId, secretAccessKey, bucket, publicUrl }
EnvConfig(env) ==
    [accountId |-> env.R2_ACCOUNT_ID.v,
     accessKeyId |-> env.R2_ACCESS_KEY_ID.v,
     secretAccessKey |-> env.R2_SECRET_ACCESS_KEY.v,
     bucket |-> env.R2_BUCKET.v,
     publicUrl |-> env.R2_PUBLIC_URL]

\* try { return R2Live(parseR2Url(r2Url)) } catch (e) { fail }: the layer of
\* the parsed configuration, or the R2ConfigError
LayerOrError(parsed) ==
    IF parsed.tag = "ok" THEN Ok(R2Live(parsed.value))
    ELSE R2ConfigError("Invalid R2_URL")

\* R2FromEnv reads process.env only; the file is the state of the disk it
\* runs beside
R2FromEnv(env, file) ==
    IF Truthy(env.R2_URL) THEN LayerOrError(parseR2Url(env.R2_URL.v))
    ELSE IF EnvIncomplete(env) THEN R2ConfigError("Missing R2 config")
    ELSE Ok(R2Live(EnvConfig(env)))

\* trimmed.startsWith("R2_URL=")
SetsUrl(line) ==
    LET trimmed == TrimSpaces(line) IN
    trimmed # << >> /\ Head(trimmed) = "R2_URL="

\* try { return parseR2Url(url) } catch { return null }
ConfigOrNull(parsed) ==
    IF parsed.tag = "ok" THEN Some(parsed.value) ELSE None

\* the for loop of loadR2Config over the lines of the file: the first line
\* that sets R2_URL decides; null when none does or when parseR2Url throws
RECURSIVE ReadLines(_)
ReadLines(lines) ==
    IF lines = << >> THEN None
    ELSE IF SetsUrl(Head(lines))
    THEN ConfigOrNull(parseR2Url(TrimSpaces(Tail(TrimSpaces(Head(lines))))))
    ELSE ReadLines(Tail(lines))

\* loadR2Config: the configuration, or null (None)
loadR2Config(env, file) ==
    IF Truthy(env.R2_URL) THEN ConfigOrNull(parseR2Url(env.R2_URL.v))
    ELSE IF ~EnvIncomplete(env) THEN Some(EnvConfig(env))
    ELSE IF file.exists
    THEN IF file.readable THEN ReadLines(file.lines) ELSE None
    ELSE None

R2FromEnvCall ==
    /\ pc = "idle"
    /\ \E env \in Envs, file \in ConfigFiles :
          /\ op' = "R2FromEnv"
          /\ arg' = [env |-> env, file |-> file]
          /\ outcome' = R2FromEnv(env, file)
    /\ pc' = "done"
    /\ UNCHANGED <<config, sent, resp, allObjects, cursor, pages>>
    /\ UNCHANGED <<signVars, manyVars, store, logVars>>

LoadR2ConfigCall ==
    /\ pc = "idle"
    /\ \E env \in Envs, file \in ConfigFiles :
          /\ op' = "loadR2Config"
          /\ arg' = [env |-> env, file |-> file]
          /\ outcome' = Ok(loadR2Config(env, file))
    /\ pc' = "done"
    /\ UNCHANGED <<config, sent, resp, allObjects, cursor, pages>>
    /\ UNCHANGED <<signVars, manyVars, store, logVars>>

EnvNext ==
    \/ R2FromEnvCall
    \/ LoadR2ConfigCall
    \/ Finish

SpecEnv == UrlInit /\ [][EnvNext]_vars

----------------------------------------------------------------------------
(* cleanup of the asset service: listAll, sort, then deleteMany of what    *)
(* exceeds keepCount                                                       *)
(*                                                                         *)
(* The keys of the bucket are the numbers 1..MaxListed, listed in key      *)
(* order; lastModified is a time in milliseconds. listAll is taken as one  *)
(* step that returns the listing or fails; its paging is in ListAllPage.   *)

\* lastModified.getTime() of an object
Times == { 1, 2 }

\* the buckets cleanup runs against
CleanupBuckets ==
    [1..MaxListed -> { None } \cup { Some([lastModified |-> t]) : t \in Times }]

\* the keepCount cleanup is called with
KeepCounts == { 0, 1, 2, MaxListed + 1 }

\* the objects listAll returns of a bucket, in key order
RECURSIVE Listing(_, _)
Listing(b, k) ==
    IF k > MaxListed THEN << >>
    ELSE (IF b[k].has
          THEN << [key |-> k, lastModified |-> b[k].v.lastModified] >>
          ELSE << >>) \o Listing(b, k + 1)

\* what listAll(prefix) ends with
ListAllResults ==
    { TransportError("list"), R2Error("list", "AccessDenied", Some(500)),
      Ok(Listing(store, 1)) }

\* a plausible slip: the comparator is a - b, oldest first
RECURSIVE InsertOldestFirst(_, _)
InsertOldestFirst(sorted, o) ==
    IF sorted = << >> THEN << o >>
    ELSE IF Head(sorted).lastModified <= o.lastModified
         THEN << Head(sorted) >> \o InsertOldestFirst(Tail(sorted), o)
         ELSE << o >> \o sorted

\* o put into a list sorted by (a, b) => b.lastModified - a.lastModified,
\* after the objects that compare equal to it (the sort is stable)
RECURSIVE InsertByTime(_, _)
InsertByTime(sorted, o) ==
    IF sorted = << >> THEN << o >>
    ELSE IF Head(sorted).lastModified >= o.lastModified
         THEN << Head(sorted) >> \o InsertByTime(Tail(sorted), o)
         ELSE << o >> \o sorted

\* objects.sort((a, b) => b.lastModified.getTime() - a.lastModified.getTime())
RECURSIVE SortNewestFirst(_)
SortNewestFirst(objects) ==
    IF objects = << >> THEN << >>
    ELSE InsertByTime(SortNewestFirst(SubSeq(objects, 1, Len(objects) - 1)),
                      objects[Len(objects)])

\* Array.prototype.slice(start, end) for 0 <= start and 0 <= end
Slice(a, start, end) ==
    SubSeq(a, (IF start < Len(a) THEN start ELSE Len(a)) + 1,
              IF end < Len(a) THEN end ELSE Len(a))

\* sorted.slice(0, keepCount)
ToKeep(sorted, keepCount) == Slice(sorted, 0, keepCount)

\* sorted.slice(keepCount)
ToDelete(sorted, keepCount) == Slice(sorted, keepCount, Len(sorted))

\* objects.map((o) => o.key)
KeysOf(objects) == [i \in 1..Len(objects) |-> objects[i].key]

\* { deleted, kept }
CleanupResult(sorted, keepCount) ==
    [deleted |-> KeysOf(ToDelete(sorted, keepCount)),
     kept |-> KeysOf(ToKeep(sorted, keepCount))]

CleanupInit ==
    /\ LogIdle
    /\ config \in { c \in Configs : c.publicUrl = None }
    /\ op = "idle" /\ pc = "idle"
    /\ arg = [key |-> <<>>]
    /\ sent = <<>> /\ resp = <<>>
    /\ outcome = NoOutcome
    /\ allObjects = <<>> /\ cursor = None /\ pages = <<>>
    /\ clock = 0 /\ signing = [r \in Runs |-> SignIdle]
    /\ queue = 1 /\ inFlight = {} /\ answered = {}
    /\ store \in CleanupBuckets

\* cleanup(prefix, keepCount) is called and calls listAll(prefix)
CleanupCall ==
    /\ pc = "idle"
    /\ \E prefix \in Prefixes, keepCount \in KeepCounts :
          /\ op' = "cleanup"
          /\ arg' = [prefix |-> prefix, keepCount |-> keepCount, keys |-> 0]
    /\ pc' = "wait"
    /\ queue' = 1 /\ inFlight' = {} /\ answered' = {}
    /\ UNCHANGED <<config, sent, resp, outcome, allObjects, cursor, pages>>
    /\ UNCHANGED <<signVars, store, logVars>>

\* listAll returns: cleanup fails with its error, or sorts the objects and
\* either calls deleteMany with the keys past keepCount or, when there is
\* none, returns
CleanupListed ==
    /\ pc = "wait" /\ op = "cleanup" /\ resp = << >>
    /\ \E objects \in ListAllResults :
          /\ resp' = << objects >>
          /\ IF objects.tag # "ok"
             THEN /\ outcome' = objects
                  /\ pc' = "done"
                  /\ UNCHANGED <<arg, allObjects>>
             ELSE LET sorted == SortNewestFirst(objects.value)
                      toDelete == ToDelete(sorted, arg.keepCount)
                  IN /\ allObjects' = sorted
                     /\ arg' = [arg EXCEPT !.keys = Len(toDelete)]
                     /\ pc' = IF Len(toDelete) > 0 THEN "wait" ELSE "done"
                     /\ outcome' = IF Len(toDelete) > 0 THEN outcome
                                   ELSE Ok(CleanupResult(sorted, arg.keepCount))
    /\ UNCHANGED <<config, op, sent, cursor, pages>>
    /\ UNCHANGED <<signVars, manyVars, store, logVars>>

\* a free worker of deleteMany takes the next key and issues its DELETE
CleanupDeleteStart ==
    /\ pc = "wait" /\ op = "cleanup" /\ resp # << >>
    /\ CanStart
    /\ sent' = Append(sent,
          [method |-> "DELETE",
           key |-> ToDelete(allObjects, arg.keepCount)[queue].key])
    /\ inFlight' = inFlight \cup { queue }
    /\ queue' = queue + 1
    /\ UNCHANGED <<config, op, pc, arg, resp, outcome, allObjects, cursor,
                   pages>>
    /\ UNCHANGED <<signVars, answered, store, logVars>>

\* the DELETE of the i-th key is answered: on failure deleteMany and with
\* it cleanup fail; on success the object is gone, and when no key is left
\* cleanup returns the two lists
CleanupDeleteAnswer(i) ==
    /\ pc = "wait" /\ op = "cleanup"
    /\ i \in inFlight
    /\ LET key == ToDelete(allObjects, arg.keepCount)[i].key IN
       \E r \in ManyResponses(key) :
          LET o == DeleteOutcome(r) IN
          IF ForEachFails(o)
          THEN /\ outcome' = o
               /\ pc' = "done"
               /\ inFlight' = {}
               /\ UNCHANGED <<answered, store>>
          ELSE /\ inFlight' = inFlight \ { i }
               /\ answered' = answered \cup { i }
               /\ store' = [store EXCEPT ![key] = None]
               /\ pc' = IF queue > arg.keys /\ inFlight' = {} THEN "done"
                        ELSE "wait"
               /\ outcome' = IF queue > arg.keys /\ inFlight' = {}
                             THEN Ok(CleanupResult(allObjects, arg.keepCount))
                             ELSE outcome
    /\ UNCHANGED <<config, op, arg, sent, resp, allObjects, cursor, pages>>
    /\ UNCHANGED <<signVars, queue, logVars>>

CleanupNext ==
    \/ CleanupCall
    \/ CleanupListed
    \/ CleanupDeleteStart
    \/ \E i \in 1..MaxListed : CleanupDeleteAnswer(i)
    \/ Finish

SpecCleanup == CleanupInit /\ [][CleanupNext]_vars

----------------------------------------------------------------------------
(* Logger: the level filter, the connection, ingest and flush              *)
(*                                                                         *)
(* Of the options only dataset, token, flush and env are set here; orgId,  *)
(* url and ingestOptions are undefined, and process.env and                *)
(* import.meta.env hold no AXIOM variable. A client is known by its cache  *)
(* key.                                                                    *)

LogLevels == { "debug", "info", "warn", "error" }

LOG_LEVEL_ORDER(level) ==
    CASE level = "debug" -> 10
      [] level = "info" -> 20
      [] level = "warn" -> 30
      [] level = "error" -> 40

\* a plausible slip: the comparison the wrong way round
shouldLogBelow(level, threshold) ==
    LOG_LEVEL_ORDER(level) <= LOG_LEVEL_ORDER(threshold)

shouldLog(level, threshold) ==
    LOG_LEVEL_ORDER(level) >= LOG_LEVEL_ORDER(threshold)

\* an env object passed in the options: the dataset under its VITE_ name
ProvidedEnv ==
    [AXIOM_DATASET |-> Some(""), VITE_AXIOM_DATASET |-> Some("vds"),
     AXIOM_TOKEN |-> Some("tk")]

\* the configurations a Logger is made with
LoggerConfigs ==
    [level : { None } \cup { Some(l) : l \in LogLevels },
     metadata : { Some({ "app" }) },
     dataset : { None, Some("ds") },
     token : { Some("tk") },
     flush : { None, Some(TRUE) },
     env : { None, Some(ProvidedEnv) }]

\* the overrides of one call: none, another token, or flush
CallOverrides ==
    { None,
      Some([dataset |-> None, token |-> Some("t2"), flush |-> None]),
      Some([dataset |-> None, token |-> None, flush |-> Some(TRUE)]) }

Contexts == { { "requestId" } }

\* valueFrom: undefined and "" are no value
valueFrom(source, key) ==
    IF source.has /\ key \in DOMAIN source.v /\ TruthyStr(source.v[key])
    THEN source.v[key] ELSE None

\* `VITE_${key}`
ViteName(key) ==
    CASE key = "AXIOM_DATASET" -> "VITE_AXIOM_DATASET"
      [] key = "AXIOM_TOKEN" -> "VITE_AXIOM_TOKEN"

\* readEnv: the key, then its VITE_ name, in the env object provided
readEnv(key, provided) ==
    IF valueFrom(provided, key).has THEN valueFrom(provided, key)
    ELSE valueFrom(provided, ViteName(key))

\* a ?? b on optional values
Coalesce(a, b) == IF a.has THEN a ELSE b

\* resolveConfig throws when the dataset or the token is missing
resolveConfig(options) ==
    LET dataset == Coalesce(options.dataset,
                            readEnv("AXIOM_DATASET", options.env))
        token == Coalesce(options.token, readEnv("AXIOM_TOKEN", options.env))
    IN IF ~TruthyStr(dataset) THEN Throw("Error")
       ELSE IF ~TruthyStr(token) THEN Throw("Error")
       ELSE Ok([dataset |-> dataset.v,
                clientOptions |-> [token |-> token.v, orgId |-> None,
                                   url |-> None]])

\* the key of getClient: [token, orgId ?? "", url ?? ""].join("|")
ClientKey(options) ==
    << options.token, OrElse(options.orgId, ""), OrElse(options.url, "") >>

\* new Logger(config, resolved, client)
Logger(c, resolved, client) ==
    [baseOptions |-> [dataset |-> c.dataset, token |-> c.token,
                      flush |-> c.flush, env |-> c.env],
     level |-> OrElse(c.level, "info"),
     metadata |-> OrElse(c.metadata, {}),
     resolved |-> resolved,
     client |-> client]

\* with(context): the logger derived from this one
LoggerWith(this, context) ==
    Logger([dataset |-> this.baseOptions.dataset,
            token |-> this.baseOptions.token,
            flush |-> this.baseOptions.flush,
            env |-> this.baseOptions.env,
            metadata |-> Some(this.metadata \cup context),
            level |-> Some(this.level)],
           this.resolved, this.client)

hasConnectionOverrides(overrides) == overrides.dataset.has \/ overrides.token.has

\* { ...this.baseOptions, ...overrides }
MergeOptions(base, overrides) ==
    [dataset |-> Coalesce(overrides.dataset, base.dataset),
     token |-> Coalesce(overrides.token, base.token),
     flush |-> Coalesce(overrides.flush, base.flush),
     env |-> base.env]

\* what a resolution hands back: its result, this logger afterwards, and
\* clientCache afterwards (getClient caches the client it makes)
Resolution(result, this, cache) ==
    [result |-> result, this |-> this,
     cache |-> IF result.tag = "ok" THEN cache \cup { result.value.client }
               ELSE cache]

Connection(r) ==
    IF r.tag = "ok"
    THEN Ok([resolved |-> r.value, client |-> ClientKey(r.value.clientOptions)])
    ELSE r

ensureBaseConnection(this, cache) ==
    IF ~this.resolved.has \/ ~this.client.has
    THEN LET c == Connection(resolveConfig(this.baseOptions)) IN
         Resolution(c,
                    IF c.tag = "ok"
                    THEN [this EXCEPT !.resolved = Some(c.value.resolved),
                                      !.client = Some(c.value.client)]
                    ELSE this,
                    cache)
    ELSE Resolution(Ok([resolved |-> this.resolved.v,
                        client |-> this.client.v]), this, cache)

\* resolve(overrides)
LoggerResolve(this, overrides, cache) ==
    IF ~overrides.has \/ ~hasConnectionOverrides(overrides.v)
    THEN ensureBaseConnection(this, cache)
    ELSE Resolution(
             Connection(resolveConfig(MergeOptions(this.baseOptions,
                                                   overrides.v))),
             this, cache)

\* a promise that was rejected
Rejected(error) == [tag |-> "rejected", error |-> error]

\* overrides?.flush ?? this.baseOptions.flush
FlushAsked(this, overrides) ==
    LET f == IF overrides.has
             THEN Coalesce(overrides.v.flush, this.baseOptions.flush)
             ELSE this.baseOptions.flush
    IN f.has /\ f.v

CreateLoggerCall ==
    /\ pc = "idle" /\ loggers = << >>
    /\ \E c \in LoggerConfigs :
          /\ op' = "createLogger"
          /\ arg' = [config |-> c]
          /\ loggers' = << Logger(c, None, None) >>
    /\ pc' = "done"
    /\ outcome' = Ok(1)
    /\ UNCHANGED <<config, sent, resp, allObjects, cursor, pages>>
    /\ UNCHANGED <<signVars, manyVars, store>>
    /\ UNCHANGED <<clientCache, ingested, flushes, timer>>

WithCall ==
    /\ pc = "idle" /\ loggers # << >> /\ Len(loggers) < MaxLoggers
    /\ \E i \in 1..Len(loggers), context \in Contexts :
          /\ op' = "with"
          /\ arg' = [logger |-> i, context |-> context]
          /\ loggers' = Append(loggers, LoggerWith(loggers[i], context))
    /\ pc' = "done"
    /\ outcome' = Ok(Len(loggers) + 1)
    /\ UNCHANGED <<config, sent, resp, allObjects, cursor, pages>>
    /\ UNCHANGED <<signVars, manyVars, store>>
    /\ UNCHANGED <<clientCache, ingested, flushes, timer>>

\* dispatch up to its first await: the level test, then the connection and
\* the call of client.ingest (at most MaxEvents events are ingested)
LogCall ==
    /\ pc = "idle"
    /\ \E i \in 1..Len(loggers), level \in LogLevels,
          overrides \in CallOverrides :
          /\ shouldLog(level, loggers[i].level) => Len(ingested) < MaxEvents
          /\ op' = "log"
          /\ arg' = [logger |-> i, level |-> level, overrides |-> overrides]
          /\ IF ~shouldLog(level, loggers[i].level)
             THEN /\ pc' = "done"
                  /\ outcome' = Ok("void")
                  /\ UNCHANGED <<loggers, clientCache, ingested>>
             ELSE LET r == LoggerResolve(loggers[i], overrides, clientCache)
                  IN /\ loggers' = [loggers EXCEPT ![i] = r.this]
                     /\ clientCache' = r.cache
                     /\ IF r.result.tag # "ok"
                        THEN /\ pc' = "done"
                             /\ outcome' = Rejected(r.result)
                             /\ UNCHANGED ingested
                        ELSE /\ pc' = "wait"
                             /\ outcome' = outcome
                             /\ ingested' = Append(ingested,
                                   [logger |-> i, level |-> level,
                                    dataset |-> r.result.value.resolved.dataset,
                                    client |-> r.result.value.client])
    /\ UNCHANGED <<config, sent, resp, allObjects, cursor, pages>>
    /\ UNCHANGED <<signVars, manyVars, store>>
    /\ UNCHANGED <<flushes, timer>>

\* the await of client.ingest is over: dispatch rejects with what ingest
\* threw, calls client.flush when asked to, or returns
LogIngested ==
    /\ pc = "wait" /\ op = "log"
    /\ \E threw \in BOOLEAN :
          IF threw
          THEN /\ pc' = "done"
               /\ outcome' = Rejected(Throw("Error"))
               /\ UNCHANGED flushes
          ELSE IF FlushAsked(loggers[arg.logger], arg.overrides)
          THEN /\ pc' = "flush"
               /\ flushes' = flushes + 1
               /\ UNCHANGED outcome
          ELSE /\ pc' = "done"
               /\ outcome' = Ok("void")
               /\ UNCHANGED flushes
    /\ UNCHANGED <<config, op, arg, sent, resp, allObjects, cursor, pages>>
    /\ UNCHANGED <<signVars, manyVars, store>>
    /\ UNCHANGED <<loggers, clientCache, ingested, timer>>

\* the await of client.flush is over
LogFlushed ==
    /\ pc = "flush" /\ op = "log"
    /\ \E threw \in BOOLEAN :
          outcome' = IF threw THEN Rejected(Throw("Error")) ELSE Ok("void")
    /\ pc' = "done"
    /\ UNCHANGED <<config, op, arg, sent, resp, allObjects, cursor, pages>>
    /\ UNCHANGED <<signVars, manyVars, store, logVars>>

LoggerNext ==
    \/ CreateLoggerCall
    \/ WithCall
    \/ LogCall
    \/ LogIngested
    \/ LogFlushed
    \/ Finish

SpecLogger == UrlInit /\ [][LoggerNext]_vars

----------------------------------------------------------------------------
(* The hosted-logs client: send                                            *)

\* the payloads send is called with: the message undefined, empty, blank,
\* or text with and without spaces around it; the level absent, one of the
\* allowed ones, or another word
LogPayloads ==
    [message : { None, Some(<< >>), Some(<<" ", " ">>), Some(<<"h", "i">>),
                 Some(<<" ", "h", "i", " ">>) },
     level : { None, Some("warn"), Some("loud") }]

\* timeoutMs of the client: the default, none, or a negative number
Timeouts == { 5000, 0, -1 }

allowedLevels == { "trace", "debug", "info", "warn", "error", "fatal" }

normalizeLevel(level) ==
    IF level.has /\ level.v \in allowedLevels THEN level.v ELSE "info"

\* payload.message?.trim()
TrimmedMessage(payload) ==
    IF payload.message.has THEN Some(TrimSpaces(payload.message.v)) ELSE None

\* the POST request of a payload
LogsRequest(payload) ==
    [method |-> "POST",
     body |-> [server |-> "srv", message |-> TrimmedMessage(payload).v,
               level |-> normalizeLevel(payload.level)]]

\* what fetch can throw or reject with: an Error, or a value that is none
\* (message is then String(error))
Thrown ==
    { [isError |-> TRUE, message |-> "fetch failed"],
      [isError |-> FALSE, message |-> "boom"] }

AbortError == [isError |-> TRUE, message |-> "This operation was aborted"]

\* how the fetch of a send settles: with a response, or thrown; once the
\* timer has fired the signal is aborted and the fetch can reject with it
FetchResults ==
    { [kind |-> "thrown", error |-> e] : e \in Thrown }
    \cup { [kind |-> "response", ok |-> TRUE, status |-> 200,
            statusText |-> "OK"],
           [kind |-> "response", ok |-> FALSE, status |-> 500,
            statusText |-> "Internal Server Error"] }
    \cup (IF timer = "fired"
          THEN { [kind |-> "thrown", error |-> AbortError] } ELSE {})

\* response.text().catch(() => ""): the text, empty, or "" when reading
\* fails
TextResults == { "denied", "" }

\* the timer armed for a call: setTimeout when controller && timeoutMs > 0
SetTimeout(timeoutMs) == IF timeoutMs # 0 /\ timeoutMs > 0 THEN "armed" ELSE "none"

\* finally: if (timeout) clearTimeout(timeout)
ClearTimeout(t) == IF t = "none" THEN "none" ELSE "cleared"

\* a plausible slip: no catch, the error of fetch goes to the caller
Uncaught(error) == Rejected(error)

\* catch (error): the call resolves to a failure with error.message, or
\* with String(error) for what is no Error
Caught(error) == Ok([ok |-> FALSE, error |-> error.message])

\* text || response.statusText
NotOkResult(r, text) ==
    Ok([ok |-> FALSE, status |-> r.status,
        error |-> IF text # "" THEN text ELSE r.statusText])

\* send(payload) up to its first await: a blank message is answered at
\* once; otherwise the timer is armed and the request issued
SendCall ==
    /\ pc = "idle"
    /\ \E payload \in LogPayloads, timeoutMs \in Timeouts :
          /\ op' = "send"
          /\ arg' = [payload |-> payload, timeoutMs |-> timeoutMs]
          /\ IF ~Truthy(TrimmedMessage(payload))
             THEN /\ outcome' = Ok([ok |-> FALSE, error |-> "message is required"])
                  /\ pc' = "done"
                  /\ sent' = << >>
                  /\ timer' = "none"
             ELSE /\ sent' = << LogsRequest(payload) >>
                  /\ timer' = SetTimeout(timeoutMs)
                  /\ pc' = "wait"
                  /\ outcome' = outcome
    /\ UNCHANGED <<config, resp, allObjects, cursor, pages>>
    /\ UNCHANGED <<signVars, manyVars, store>>
    /\ UNCHANGED <<loggers, clientCache, ingested, flushes>>

\* the timeout passes while the call is awaiting: controller.abort()
TimerFires ==
    /\ op = "send" /\ pc \in { "wait", "text" }
    /\ timer = "armed"
    /\ timer' = "fired"
    /\ UNCHANGED <<clientVars, signVars, manyVars, store>>
    /\ UNCHANGED <<loggers, clientCache, ingested, flushes>>

\* the fetch settles: an ok response or an error ends the call, and a
\* response that is not ok has its text read first
FetchSettled ==
    /\ op = "send" /\ pc = "wait"
    /\ \E r \in FetchResults :
          /\ resp' = << r >>
          /\ IF r.kind = "thrown"
             THEN /\ outcome' = Caught(r.error)
                  /\ pc' = "done"
                  /\ timer' = ClearTimeout(timer)
             ELSE IF r.ok
             THEN /\ outcome' = Ok([ok |-> TRUE, status |-> r.status])
                  /\ pc' = "done"
                  /\ timer' = ClearTimeout(timer)
             ELSE /\ pc' = "text"
                  /\ UNCHANGED <<outcome, timer>>
    /\ UNCHANGED <<config, op, arg, sent, allObjects, cursor, pages>>
    /\ UNCHANGED <<signVars, manyVars, store>>
    /\ UNCHANGED <<loggers, clientCache, ingested, flushes>>

\* the text of a response that is not ok has been read
TextSettled ==
    /\ op = "send" /\ pc = "text"
    /\ \E text \in TextResults : outcome' = NotOkResult(resp[1], text)
    /\ pc' = "done"
    /\ timer' = ClearTimeout(timer)
    /\ UNCHANGED <<config, op, arg, sent, resp, allObjects, cursor, pages>>
    /\ UNCHANGED <<signVars, manyVars, store>>
    /\ UNCHANGED <<loggers, clientCache, ingested, flushes>>

SendNext ==
    \/ SendCall
    \/ TimerFires
    \/ FetchSettled
    \/ TextSettled
    \/ Finish

SpecSend == UrlInit /\ [][SendNext]_vars

----------------------------------------------------------------------------
(* Claims *)

\* the response the call in progress received first
FirstResponse == resp[1]

(* C1: delete(key) completes without error whenever the backend answers    *)
(* with a 2xx status or with 404, and fails with an R2Error carrying the   *)
(* status for every other response status; so deleting an already-missing  *)
(* key (404) always succeeds.                                              *)
C1_DeleteIdempotent ==
    (op = "delete" /\ pc = "done" /\ FirstResponse.kind = "response") =>
        LET s == FirstResponse.status IN
        IF (s >= 200 /\ s <= 299) \/ s = 404
        THEN outcome = Ok("void")
        ELSE /\ outcome.tag = "R2Error"
             /\ outcome.status = Some(s)

\* a delete answered 404 has completed without error
C1_Witness ==
    /\ op = "delete" /\ pc = "done"
    /\ FirstResponse.kind = "response" /\ FirstResponse.status = 404
    /\ outcome = Ok("void")

(* C2: exists(key) returns true exactly when head(key) succeeds on the     *)
(* same response, false exactly when head(key) fails with the not-found    *)
(* error (the 404 answer), and otherwise fails with the very error         *)
(* head(key) fails with.                                                   *)
C2_ExistsFollowsHead ==
    (op = "exists" /\ pc = "done") =>
        LET h == HeadOutcome(arg.key, FirstResponse) IN
        /\ h.tag = "ok" => outcome = Ok(TRUE)
        /\ h.tag = "R2NotFoundError" => outcome = Ok(FALSE)
        /\ h.tag = "R2Error" => outcome = h
        /\ outcome.tag = "ok" =>
              /\ FirstResponse.kind = "response"
              /\ outcome.value = TRUE <=> IsSuccessStatus(FirstResponse.status)
              /\ outcome.value = FALSE <=> FirstResponse.status = 404

\* exists has propagated a protocol error of head unchanged
C2_Witness ==
    /\ op = "exists" /\ pc = "done"
    /\ FirstResponse.kind = "response" /\ FirstResponse.status = 500
    /\ outcome = R2Error("head", "HEAD failed", Some(500))

\* s without the slashes it ends with
RECURSIVE StripTrailingSlashes(_)
StripTrailingSlashes(s) ==
    IF EndsWithSlash(s) THEN StripTrailingSlashes(SubSeq(s, 1, Len(s) - 1))
    ELSE s

(* C5: getPublicUrl(key) is absent if and only if no public prefix is      *)
(* configured (none, or an empty one), and otherwise is the prefix, a      *)
(* single "/" and the key: exactly one separator stands between the prefix *)
(* and the key, whether or not the configured prefix ends with a slash.    *)
C5_PublicUrlOneSeparator ==
    (op = "getPublicUrl" /\ pc = "done") =>
        /\ outcome.value = None <=> ~Truthy(config.publicUrl)
        /\ outcome.value.has =>
              outcome.value.v =
                  StripTrailingSlashes(config.publicUrl.v) \o <<"/">> \o arg.key

\* the number of bytes of the UTF-8 encoding of a text
RECURSIVE Utf8Length(_)
Utf8Length(text) ==
    IF text = <<>> THEN 0 ELSE Len(Utf8(Head(text))) + Utf8Length(Tail(text))

(* C9: a put answered 2xx returns a descriptor whose key is the input key, *)
(* whose size is the number of bytes sent as the request body (the UTF-8   *)
(* length for text), whose etag is the response's ETag header, whose url   *)
(* is getPublicUrl(key) and whose httpMetadata.contentType is the content  *)
(* type given in the options; a put answered non-2xx returns no descriptor *)
(* and fails with R2Error.                                                 *)
C9_PutDescriptor ==
    (op = "put" /\ pc = "done" /\ FirstResponse.kind = "response") =>
        IF IsSuccessStatus(FirstResponse.status)
        THEN /\ outcome.tag = "ok"
             /\ outcome.value.key = arg.key
             /\ outcome.value.size = Len(sent[1].body)
             /\ arg.body.type = "string" =>
                    outcome.value.size = Utf8Length(arg.body.text)
             /\ outcome.value.etag = OrElse(FirstResponse.etag, <<>>)
             /\ outcome.value.url = getPublicUrl(arg.key)
             /\ outcome.value.httpMetadata.contentType = arg.options.contentType
        ELSE /\ outcome.tag = "R2Error"
             /\ outcome.status = Some(FirstResponse.status)

\* a put of multi-byte text, and a put of a partial view, have succeeded
C9_Witness ==
    /\ op = "put" /\ pc = "done"
    /\ arg.body.type = "string" /\ arg.body.text = <<"e-acute", "euro">>
    /\ FirstResponse.kind = "response" /\ FirstResponse.status = 200
    /\ FirstResponse.etag.has
    /\ outcome.tag = "ok" /\ outcome.value.size = 5

HasQuote(s) == \E i \in 1..Len(s) : s[i] = Quote

(* C10: in every descriptor the client produces, from put, head or list,   *)
(* the etag has its quote characters stripped: no descriptor's etag        *)
(* contains a double-quote character.                                      *)
C10_EtagUnquoted ==
    /\ (op \in {"put", "head"} /\ pc = "done" /\ outcome.tag = "ok") =>
          ~HasQuote(outcome.value.etag)
    /\ \A i \in 1..Len(allObjects) : ~HasQuote(allObjects[i].etag)

\* the keys of the <Contents> blocks of the pages ps, in page order
RECURSIVE PageKeys(_)
PageKeys(ps) ==
    IF ps = <<>> THEN <<>>
    ELSE [j \in 1..Len(Head(ps).contents) |-> Head(ps).contents[j].key]
         \o PageKeys(Tail(ps))

\* every truncated page served carries a usable continuation token
ChainWellFormed ==
    \A i \in 1..Len(pages) :
        pages[i].isTruncated = "true" => Truthy(pages[i].nextToken)

(* C3: when every page fetch succeeds, listAll returns the objects of      *)
(* every page of the cursor chain, concatenated in page order with none    *)
(* dropped, duplicated or reordered: the first page is fetched without a   *)
(* cursor, each next page with the previous page's continuation token,     *)
(* every page before the last is truncated, and (the chain being well      *)
(* formed) the last page is the first one that is not truncated.           *)
C3_ListAllConcatenates ==
    (op = "listAll" /\ pc = "done" /\ outcome.tag = "ok") =>
        /\ [i \in 1..Len(outcome.value) |-> outcome.value[i].key]
              = PageKeys(pages)
        /\ Len(sent) = Len(pages)
        /\ Param(sent[1], "continuation-token") = None
        /\ \A i \in 2..Len(sent) :
              Param(sent[i], "continuation-token") = pages[i - 1].nextToken
        /\ \A i \in 1..(Len(pages) - 1) : pages[i].isTruncated = "true"
        /\ ChainWellFormed => pages[Len(pages)].isTruncated # "true"

\* listAll has returned the objects of a chain of several pages
C3_Witness ==
    /\ op = "listAll" /\ pc = "done" /\ outcome.tag = "ok"
    /\ ChainWellFormed
    /\ Len(pages) >= 3
    /\ Len(outcome.value) >= 4
    /\ Len(pages[2].contents) = 0

(* C4: listAll terminates: against a finite cursor chain every listAll in  *)
(* progress eventually returns, having issued exactly one list request per *)
(* page (request i addresses page i), also over several pages; and it ends *)
(* with a failure as soon as a page fetch fails, issuing no request after. *)
C4_ListAllTerminates ==
    /\ [](op = "listAll" =>
            /\ \A i \in 1..Len(sent) : PageIndex(sent[i]) = i
            /\ Len(sent) = Len(resp) + (IF pc = "wait" THEN 1 ELSE 0)
            /\ \A i \in 1..Len(resp) :
                  (resp[i].kind = "failure" \/ ~IsSuccessStatus(resp[i].status))
                     => /\ i = Len(resp)
                        /\ pc = "done"
                        /\ outcome.tag = "R2Error")
    /\ ((op = "listAll" /\ pc = "wait") ~> (op = "listAll" /\ pc = "done"))

\* listAll has failed on the second page, after one request per page
C4_Witness ==
    /\ op = "listAll" /\ pc = "done" /\ outcome.tag = "R2Error"
    /\ Len(resp) = 2 /\ Len(sent) = 2

(* C6: for every valid connection descriptor d (accessKeyId,               *)
(* secretAccessKey, accountId and bucket non-empty, publicUrl optional),   *)
(* parseR2Url(toR2Url(d)) equals d field by field (a public URL, when      *)
(* present, being a non-empty string).                                     *)
C6_RoundTrip ==
    (op = "roundTrip" /\ pc = "done" /\ arg.d.publicUrl # Some(<<>>)) =>
        outcome = Ok(arg.d)

\* the descriptors whose account id and bucket are made of letters only
\* (the bucket also of "/") and whose public URL is absent or non-empty:
\* these, with any characters in the two credentials, do round-trip
PlainDescriptor(d) ==
    /\ \A i \in 1..Len(d.accountId) : d.accountId[i] \in Letters
    /\ \A i \in 1..Len(d.bucket) : d.bucket[i] \in Letters \cup {"/"}
    /\ d.publicUrl # Some(<<>>)

RoundTripOfPlain ==
    (op = "roundTrip" /\ pc = "done" /\ PlainDescriptor(arg.d)) =>
        outcome = Ok(arg.d)

\* the input has every delimiter of r2://USER:PASS@HOST/BUCKET, and one of
\* the four required fields between them is empty
FieldMissing(p) ==
    /\ p.slashes = <<"/", "/">> /\ p.colon = <<":">> /\ p.at = <<"@">>
    /\ p.slash = <<"/">>
    /\ (p.user = <<>> \/ p.pass = <<>> \/ p.host = <<>> \/ p.bucket = <<>>)

(* C7: parseR2Url never returns a descriptor with an empty accessKeyId,    *)
(* secretAccessKey, accountId or bucket: an input that does not use the r2 *)
(* scheme, or in which one of the four required fields is missing or       *)
(* empty, is rejected with an error and no descriptor is produced.         *)
C7_ParseRejectsIncomplete ==
    (op = "parseR2Url" /\ pc = "done") =>
        /\ outcome.tag = "ok" =>
              /\ outcome.value.accessKeyId # <<>>
              /\ outcome.value.secretAccessKey # <<>>
              /\ outcome.value.accountId # <<>>
              /\ outcome.value.bucket # <<>>
        /\ arg.parts.scheme \notin { <<"r2:">>, <<"R2:">> } =>
              outcome.tag \in { "Error", "TypeError" }
        /\ FieldMissing(arg.parts) =>
              outcome.tag \in { "Error", "TypeError", "URIError" }

\* a connection string with everything but the bucket has been rejected
C7_Witness ==
    /\ op = "parseR2Url" /\ pc = "done"
    /\ arg.url = <<"r2:", "/", "/", "x", ":", "y", "@", "x", "/">>
    /\ outcome = Throw("Error")

(* C8: signing is deterministic for a fixed timestamp: two signRequest     *)
(* calls with identical method, url, headers, body, credentials and region *)
(* that captured the same clock value return identical Authorization       *)
(* headers and identical header sets, whatever the clock did while they    *)
(* were suspended and whatever the other call did.                         *)
C8_SigningDeterministic ==
    \A a, b \in Runs :
        (/\ signing[a].pc = "done" /\ signing[b].pc = "done"
         /\ signing[a].input = signing[b].input
         /\ signing[a].now = signing[b].now)
            => signing[a].out = signing[b].out

\* two calls with the same inputs captured the same clock value, the clock
\* has moved on since, and both have returned
C8_Witness ==
    /\ signing[1].pc = "done" /\ signing[2].pc = "done"
    /\ signing[1].input = signing[2].input
    /\ signing[1].input.headers # << >>
    /\ signing[1].now = signing[2].now
    /\ clock > signing[1].now
    /\ signing[1].out.Authorization = signing[2].out.Authorization

(* C11: for get and head, a 404 response always yields R2NotFoundError,    *)
(* never R2Error and never a value, and the error names the configured     *)
(* bucket and the key as the caller gave it, not as the request URL        *)
(* encodes it.                                                             *)
C11_NotFoundIdentifies ==
    (op \in {"get", "head"} /\ pc = "done" /\ FirstResponse.kind = "response"
        /\ FirstResponse.status = 404) =>
            /\ outcome.tag = "R2NotFoundError"
            /\ outcome.bucket = config.bucket
            /\ outcome.key = arg.key
            /\ sent[1].path = encodeKey(arg.key)

\* a get of a key that the URL escapes was answered 404
C11_Witness ==
    /\ op = "get" /\ pc = "done"
    /\ arg.key = <<"k", " ">> /\ sent[1].path = <<"k", "%20">>
    /\ FirstResponse.kind = "response" /\ FirstResponse.status = 404
    /\ outcome = R2NotFoundError("bkt", <<"k", " ">>)

\* the response is the not-found case of the operation in progress: a 404
\* to a get, a head or a delete
NotFoundCase ==
    op \in {"get", "head", "delete"} /\ FirstResponse.status = 404

\* the response is a non-2xx one other than the not-found case
ProtocolFailure ==
    /\ FirstResponse.kind = "response"
    /\ ~IsSuccessStatus(FirstResponse.status)
    /\ ~NotFoundCase

(* C12 as stated: for get, put, delete, head and list, a non-2xx response  *)
(* other than the not-found case produces an R2Error carrying the status   *)
(* of the response and the raw response body as its message; a             *)
(* network-level failure produces an R2Error without a status.             *)
C12_ErrorCarriesBody ==
    (op \in {"get", "put", "delete", "head", "list"} /\ pc = "done") =>
        /\ FirstResponse.kind = "failure" =>
              outcome.tag = "R2Error" /\ outcome.status = None
        /\ ProtocolFailure =>
              outcome = R2Error(op, FirstResponse.body,
                                Some(FirstResponse.status))

(* C12, amended: for get, put, delete and list the R2Error of a non-2xx    *)
(* response other than the not-found case carries the status and the raw   *)
(* response body as its message; for head it carries the status and the    *)
(* fixed message "HEAD failed"; a network-level failure produces an        *)
(* R2Error without a status in all five.                                   *)
C12_ErrorCarriesStatus ==
    (op \in {"get", "put", "delete", "head", "list"} /\ pc = "done") =>
        /\ FirstResponse.kind = "failure" =>
              outcome.tag = "R2Error" /\ outcome.status = None
        /\ ProtocolFailure =>
              outcome = R2Error(op,
                                IF op = "head" THEN "HEAD failed"
                                ELSE FirstResponse.body,
                                Some(FirstResponse.status))

\* a head was answered 403
C12_Witness ==
    /\ op = "head" /\ pc = "done"
    /\ FirstResponse.kind = "response" /\ FirstResponse.status = 403
    /\ outcome = R2Error("head", "HEAD failed", Some(403))

(* C13: when the GET of a getJson is answered 2xx and the body, read in    *)
(* full, is not valid JSON (text that is no JSON, an empty body, bytes     *)
(* that are not UTF-8), getJson returns no value and ends neither in       *)
(* R2Error nor in R2NotFoundError but in a failure of another kind: the    *)
(* SyntaxError of the parser; a body that is JSON yields its value.        *)
C13_DecodeErrorDistinct ==
    (op = "getJson" /\ pc = "done" /\ FirstResponse.kind = "response"
        /\ IsSuccessStatus(FirstResponse.status) /\ FirstResponse.readable) =>
            IF FirstResponse.bytes = <<49>>
            THEN outcome = Ok(<<"number", <<"1">> >>)
            ELSE /\ outcome.tag \notin {"ok", "R2Error", "R2NotFoundError"}
                 /\ outcome = Die("SyntaxError")

\* a getJson was answered 200 with bytes that are not UTF-8
C13_Witness ==
    /\ op = "getJson" /\ pc = "done"
    /\ FirstResponse.kind = "response" /\ FirstResponse.status = 200
    /\ FirstResponse.readable /\ FirstResponse.bytes = <<195>>
    /\ outcome = Die("SyntaxError")

(* C14: during deleteMany(keys), for any number of keys, at most 10       *)
(* DELETE requests are in flight at any moment, a key is in flight only    *)
(* after every key before it was taken, and no order of completion is      *)
(* imposed: each delete in flight can be the next one to be answered.      *)
C14_BoundedConcurrency ==
    op = "deleteMany" =>
        /\ Cardinality(inFlight) <= 10
        /\ inFlight \cup answered \subseteq 1..(queue - 1)
        /\ queue <= arg.keys + 1
        /\ \A k \in inFlight : ENABLED DeleteManyAnswer(k)

\* ten deletes are in flight, the first key among them, while the second
\* key's delete is done and an eleventh key was taken in its place
C14_Witness ==
    /\ op = "deleteMany" /\ pc = "wait" /\ arg.keys > 10
    /\ Cardinality(inFlight) = 10
    /\ 1 \in inFlight /\ 2 \in answered /\ 11 \in inFlight

(* C15: deleteMany(keys) succeeds only if the delete of every key was      *)
(* issued and answered 2xx or 404, and then none of the keys is stored;    *)
(* it fails with the error of the first delete that fails, and the keys    *)
(* whose delete was answered before stay deleted: nothing is rolled back.  *)
C15_AllOrPartial ==
    (op = "deleteMany" /\ pc = "done") =>
        /\ outcome.tag \in {"ok", "R2Error"}
        /\ outcome.tag = "ok" =>
              /\ answered = 1..arg.keys
              /\ inFlight = {}
        /\ outcome.tag = "R2Error" =>
              /\ outcome.operation = "delete"
              /\ answered # 1..arg.keys
        /\ \A k \in answered : ~store[k].has

\* a deleteMany has failed after one of its deletes had removed an object,
\* and another of its keys is still stored
C15_Witness ==
    /\ op = "deleteMany" /\ pc = "done" /\ outcome.tag = "R2Error"
    /\ answered # {}
    /\ \E k \in 1..arg.keys : store[k].has

\* response i of the call in progress is a 2xx one
Answered2xx(i) ==
    /\ i <= Len(resp)
    /\ resp[i].kind = "response" /\ IsSuccessStatus(resp[i].status)

(* C16: copy(sourceKey, destKey) fails with R2NotFoundError when the GET   *)
(* of the source is answered 404, and fails whenever nothing is stored     *)
(* under the source; a PUT is issued only as the third request, to         *)
(* destKey, after the GET and the HEAD of sourceKey both succeeded; a copy *)
(* that fails in its get or head step issues no PUT and leaves the object  *)
(* stored under destKey as it was; the destination changes only when a     *)
(* PUT was answered 2xx.                                                   *)
C16_CopyFrame ==
    op = "copy" =>
        /\ sent[1] = ObjectRequest("GET", arg.sourceKey)
        /\ \A i \in 1..Len(sent) :
              sent[i].method = "PUT" =>
                  /\ i = 3 /\ sent[i].key = arg.destKey
                  /\ Answered2xx(1) /\ resp[1].readable
                  /\ Answered2xx(2)
                  /\ sent[2] = ObjectRequest("HEAD", arg.sourceKey)
        /\ (pc = "done" /\ Len(sent) < 3) =>
              /\ outcome.tag \in {"R2Error", "R2NotFoundError"}
              /\ store[arg.destKey] = arg.before
        /\ (pc = "done" /\ resp[1].kind = "response" /\ resp[1].status = 404) =>
              /\ outcome = R2NotFoundError(config.bucket, arg.sourceKey)
              /\ Len(sent) = 1
        /\ (pc = "done" /\ ~arg.source.has) => outcome.tag # "ok"
        /\ store[arg.destKey] # arg.before => Answered2xx(3)

\* a copy of a key under which nothing is stored, onto a key that holds an
\* object, has failed with not-found after its GET, the object untouched
C16_Witness ==
    /\ op = "copy" /\ pc = "done"
    /\ ~arg.source.has /\ arg.before.has
    /\ Len(sent) = 1
    /\ resp[1].kind = "response" /\ resp[1].status = 404
    /\ outcome.tag = "R2NotFoundError"
    /\ store[arg.destKey] = arg.before

(* C17: a successful copy writes the destination with the source's bytes   *)
(* and with the contentType and the customMetadata of the source: the PUT  *)
(* carries the source's bytes, its content type, and an x-amz-meta-* entry *)
(* for every custom metadata entry of the source, and the bucket then      *)
(* stores under destKey what it stores under sourceKey.                    *)
C17_CopyPreservesMetadata ==
    (op = "copy" /\ pc = "done" /\ outcome.tag = "ok") =>
        /\ sent[3].body = arg.source.v.bytes
        /\ arg.source.v.contentType.has =>
              RequestHeader(sent[3], <<"content-type">>)
                  = arg.source.v.contentType
        /\ RequestMeta(sent[3]) =
              (IF arg.source.v.customMetadata.has
               THEN arg.source.v.customMetadata.v ELSE {})
        /\ arg.source.v.contentType.has => store[arg.destKey] = arg.source

\* the backend has reported to the call in progress that the object is
\* missing: one of its requests was answered 404
ReportedMissing ==
    \E i \in 1..Len(resp) : resp[i].kind = "response" /\ resp[i].status = 404

C19_CursorOnlyIfTruncated ==
    (op = "list" /\ pc = "done" /\ outcome.tag = "ok") =>
        (outcome.value.cursor.has => outcome.value.truncated)

\* the values of the <Prefix> tags inside <CommonPrefixes> wrappers of a
\* list document that are not empty, in document order
WrappedPrefixes(xml) == SelectSeq(xml.commonPrefixes, LAMBDA p : p # << >>)

(* C20: the delimitedPrefixes of a List Result are exactly the values of   *)
(* the <Prefix> tags nested inside <CommonPrefixes> wrappers of the        *)
(* response, each once: the top-level <Prefix> is never reported and never *)
(* makes a common prefix be reported twice, and neither does the key of a  *)
(* <Contents> block.                                                       *)
C20_PrefixesExact ==
    (op = "list" /\ pc = "done" /\ outcome.tag = "ok") =>
        outcome.value.delimitedPrefixes = WrappedPrefixes(FirstResponse.xml)

\* the code units of the names of the query parameters list sends
NameCodes(name) ==
    CASE name = "list-type" -> <<108, 105, 115, 116, 45, 116, 121, 112, 101>>
      [] name = "prefix" -> <<112, 114, 101, 102, 105, 120>>
      [] name = "delimiter" -> <<100, 101, 108, 105, 109, 105, 116, 101, 114>>
      [] name = "continuation-token" ->
            <<99, 111, 110, 116, 105, 110, 117, 97, 116, 105, 111, 110, 45,
              116, 111, 107, 101, 110>>
      [] name = "max-keys" -> <<109, 97, 120, 45, 107, 101, 121, 115>>

\* a comes before b in the order of their code units
RECURSIVE CodesBefore(_, _)
CodesBefore(a, b) ==
    IF a = << >> THEN b # << >>
    ELSE IF b = << >> THEN FALSE
    ELSE IF Head(a) # Head(b) THEN Head(a) < Head(b)
    ELSE CodesBefore(Tail(a), Tail(b))

\* the query parameters of a request are ordered by parameter name
QueryOrdered(req) ==
    \A i \in 1..(Len(req.params) - 1) :
        CodesBefore(NameCodes(req.params[i][1]),
                    NameCodes(req.params[i + 1][1]))

(* C21: for every combination of list options (prefix, delimiter, cursor,  *)
(* limit), the URL that list hands to the signer has its query parameters  *)
(* ordered by parameter name, as the signer, which copies the query string *)
(* verbatim into the canonical request, requires of its callers.           *)
C21_QueryOrdered ==
    (op \in {"list", "listAll"}) =>
        \A i \in 1..Len(sent) : QueryOrdered(sent[i])

\* the configuration the global config file holds, when it holds one
FileConfig(file) ==
    IF file.exists /\ file.readable THEN ReadLines(file.lines) ELSE None

(* C22: R2FromEnv resolves the configuration in this order: the R2_URL     *)
(* environment variable, then the individual R2_* environment variables,   *)
(* then the global config file; in particular, with no R2 environment      *)
(* variable set and a valid global config file present, R2FromEnv yields a *)
(* client layer rather than failing with R2ConfigError.                    *)
C22_EnvThenFile ==
    (op = "R2FromEnv" /\ pc = "done") =>
        LET env == arg.env
            url == parseR2Url(env.R2_URL.v)
        IN /\ (Truthy(env.R2_URL) /\ url.tag = "ok") =>
                  outcome = Ok(R2Live(url.value))
           /\ (~Truthy(env.R2_URL) /\ ~EnvIncomplete(env)) =>
                  outcome = Ok(R2Live(EnvConfig(env)))
           /\ (~Truthy(env.R2_URL) /\ EnvIncomplete(env)
                  /\ FileConfig(arg.file).has) =>
                  outcome = Ok(R2Live(FileConfig(arg.file).v))

(* C23: listAll strictly serializes its page fetches: it never has two     *)
(* list requests in flight (a request is issued only after every earlier   *)
(* one was answered), the first request carries no continuation token,     *)
(* every later request carries exactly the continuation token returned by  *)
(* the immediately preceding page, and every request asks for a page size  *)
(* of 1000 with the caller's prefix (no prefix parameter when the caller's *)
(* prefix is undefined or empty).                                          *)
C23_ListAllSerial ==
    op = "listAll" =>
        /\ Len(sent) - Len(resp) = (IF pc = "wait" THEN 1 ELSE 0)
        /\ Param(sent[1], "continuation-token") = None
        /\ \A i \in 2..Len(sent) :
              /\ resp[i - 1].kind = "response" /\ resp[i - 1].status = 200
              /\ Truthy(resp[i - 1].xml.nextToken)
              /\ Param(sent[i], "continuation-token")
                    = resp[i - 1].xml.nextToken
        /\ \A i \in 1..Len(sent) :
              /\ Param(sent[i], "max-keys") = Some(1000)
              /\ Param(sent[i], "prefix")
                    = (IF Truthy(arg.prefix) THEN arg.prefix ELSE None)
              /\ Param(sent[i], "delimiter") = None

\* listAll under a prefix has its third request in flight
C23_Witness ==
    /\ op = "listAll" /\ pc = "wait"
    /\ Len(sent) = 3 /\ Len(resp) = 2
    /\ Truthy(arg.prefix)
    /\ Param(sent[3], "continuation-token") = Some(<<3>>)

\* the request got no response, or one with a status outside 2xx
Failed(r) == r.kind = "failure" \/ ~IsSuccessStatus(r.status)

\* the operations that are one request, and the ones that are a sequence of
\* steps
SingleOps == { "get", "put", "delete", "head", "list" }

StepOps == { "listAll", "copy" }

\* a call has issued one request more than it has answers while it waits,
\* and as many when it is done; a single operation issues one in all
OneRequestAtATime ==
    /\ op \in SingleOps \cup StepOps =>
          Len(sent) - Len(resp) = (IF pc = "wait" THEN 1 ELSE 0)
    /\ (op \in SingleOps /\ pc \in { "wait", "done" }) => Len(sent) = 1

(* C24, as stated: no operation retries: get, put, delete, head and list   *)
(* each issue exactly one HTTP request per call, and when that request     *)
(* fails or is answered with an error status the operation fails at once   *)
(* without issuing any further request; listAll and copy issue no request  *)
(* after the first failure of a step.                                      *)
C24_FailsOnEveryError ==
    /\ OneRequestAtATime
    /\ op \in SingleOps \cup StepOps =>
          \A i \in 1..Len(resp) :
              Failed(resp[i]) =>
                  i = Len(resp) /\ pc = "done" /\ outcome.tag # "ok"

(* C24, amended: no operation retries: get, put, delete, head and list     *)
(* each issue exactly one HTTP request per call; when that request fails   *)
(* or is answered with a status outside 2xx no further request is issued   *)
(* and the call is over at once, as a failure except for a delete answered *)
(* 404, which completes normally; listAll and copy issue no request after  *)
(* the first failure of a step and fail with it.                           *)
C24_NoRetry ==
    /\ OneRequestAtATime
    /\ op \in SingleOps \cup StepOps =>
          \A i \in 1..Len(resp) :
              Failed(resp[i]) =>
                  /\ i = Len(resp) /\ pc = "done"
                  /\ outcome.tag = "ok" <=>
                        (op = "delete" /\ resp[i].kind = "response"
                            /\ resp[i].status = 404)

\* a get whose request failed at the transport is over, with one request
\* issued
C24_Witness ==
    /\ op = "get" /\ pc = "done"
    /\ resp = << NetworkFailure >>
    /\ Len(sent) = 1
    /\ outcome.tag = "R2Error"

\* the members of a list
Range(s) == { s[i] : i \in 1..Len(s) }

\* lastModified of the listed object with key k
TimeOf(listed, k) ==
    (CHOOSE o \in Range(listed) : o.key = k).lastModified

(* C25: for every prefix and every keepCount >= 0, a successful            *)
(* cleanup(prefix, keepCount) returns kept and deleted lists that          *)
(* partition the keys listAll(prefix) returned: kept holds the             *)
(* min(keepCount, n) keys with the most recent lastModified, deleted holds *)
(* all the others, every key in deleted had a delete issued (and is gone), *)
(* no key in kept did (and is still stored); when nothing exceeds          *)
(* keepCount no delete request is issued at all.                           *)
C25_CleanupPartitions ==
    (op = "cleanup" /\ pc = "done" /\ outcome.tag = "ok") =>
        LET listed == resp[1].value
            kept == outcome.value.kept
            deleted == outcome.value.deleted
            n == Len(listed)
            issued == { sent[i].key : i \in 1..Len(sent) }
        IN /\ Len(kept) = (IF arg.keepCount < n THEN arg.keepCount ELSE n)
           /\ Len(kept) + Len(deleted) = n
           /\ Range(kept) \cup Range(deleted) = Range(KeysOf(listed))
           /\ Range(kept) \cap Range(deleted) = {}
           /\ \A k \in Range(kept), d \in Range(deleted) :
                 TimeOf(listed, k) >= TimeOf(listed, d)
           /\ issued = Range(deleted) /\ Len(sent) = Len(deleted)
           /\ \A d \in Range(deleted) : ~store[d].has
           /\ \A k \in Range(kept) : store[k].has
           /\ n <= arg.keepCount => sent = << >>

\* cleanup kept the newest of three objects, which was not listed first,
\* and deleted the two others
C25_Witness ==
    /\ op = "cleanup" /\ pc = "done" /\ outcome.tag = "ok"
    /\ arg.keepCount = 1
    /\ Len(resp[1].value) = 3
    /\ Len(outcome.value.kept) = 1 /\ Len(outcome.value.deleted) = 2
    /\ outcome.value.kept[1] # resp[1].value[1].key
    /\ Len(sent) = 2

(* C26: for every put, whatever the body type (string, ArrayBuffer, or a   *)
(* Uint8Array that views only part of a larger buffer), the payload hash   *)
(* that is signed and sent as x-amz-content-sha256 is the digest of        *)
(* exactly the bytes transmitted as the request body, and the returned     *)
(* size is the length of those same bytes.                                 *)
C26_HashOfSentBytes ==
    (op = "put" /\ pc \in { "wait", "done" }) =>
        /\ sha256(sent[1].signedBody) = sha256(sent[1].body)
        /\ (pc = "done" /\ outcome.tag = "ok") =>
              outcome.value.size = Len(sent[1].body)

\* the content type a PUT carries for an object: its own, or the default
SentType(object) == Some(OrElse(object.contentType, "application/octet-stream"))

(* C27: when another writer overwrites or deletes the source between the   *)
(* steps of copy (get, then head, then put), the destination written by a  *)
(* successful copy still holds the bytes and the content type of one       *)
(* single version of the source (every version is a member of             *)
(* CopyObjects): copy never writes the bytes of one version together with  *)
(* the content type of another.                                            *)
C27_CopyOneVersion ==
    (op = "copy" /\ pc = "done" /\ outcome.tag = "ok") =>
        \E version \in CopyObjects :
            /\ version.has
            /\ sent[3].body = version.v.bytes
            /\ RequestHeader(sent[3], <<"content-type">>) = SentType(version.v)

\* the page listAll received last says it is truncated and names no next
\* page: it has no continuation token, or an empty one
TruncatedWithoutToken ==
    /\ op = "listAll" /\ resp # << >>
    /\ LET r == resp[Len(resp)] IN
       /\ r.kind = "response" /\ r.status = 200
       /\ r.xml.isTruncated = "true"
       /\ ~Truthy(r.xml.nextToken)

(* C28: if a list page reports truncated = true but carries no             *)
(* continuation token (or an empty one), listAll does not fail and does    *)
(* not loop: it stops, issuing no further request, and returns             *)
(* successfully the objects of the pages gathered so far, although the     *)
(* backend has said that more objects follow.                              *)
C28_StopsWithoutToken ==
    TruncatedWithoutToken =>
        /\ pc = "done" /\ outcome.tag = "ok"
        /\ Len(sent) = Len(resp)
        /\ outcome.value = allObjects
        /\ [i \in 1..Len(outcome.value) |-> outcome.value[i].key]
              = PageKeys(pages)

\* listAll has returned the objects of two pages, the second of which is
\* truncated with an empty continuation token
C28_Witness ==
    /\ TruncatedWithoutToken
    /\ pc = "done" /\ outcome.tag = "ok"
    /\ Len(pages) = 2
    /\ pages[2].nextToken = Some(<< >>)
    /\ Len(outcome.value) = 2 * MaxObjs

\* the order of the levels: debug < info < warn < error
Rank(level) ==
    CASE level = "debug" -> 1
      [] level = "info" -> 2
      [] level = "warn" -> 3
      [] level = "error" -> 4

\* the step is a call of a logger with a level below its minimum level
BelowMinimum ==
    /\ pc = "idle" /\ op' = "log"
    /\ Rank(arg'.level) < Rank(loggers[arg'.logger].level)

(* C29: a Logger never ingests an event whose level is below its minimum   *)
(* level (default "info", order debug < info < warn < error): for such a   *)
(* call no configuration is resolved, no client is created or cached, and  *)
(* neither ingest nor flush is invoked, and the call returns at once; a    *)
(* logger derived with with(context) keeps the same minimum level.         *)
C29_BelowLevelDropped ==
    /\ [][BelowMinimum =>
              /\ pc' = "done" /\ outcome' = Ok("void")
              /\ UNCHANGED <<loggers, clientCache, ingested, flushes>>]_vars
    /\ [](\A i \in 1..Len(ingested) :
              Rank(ingested[i].level) >= Rank(loggers[ingested[i].logger].level))
    /\ [][(pc = "idle" /\ op' = "createLogger") =>
              loggers'[1].level = OrElse(arg'.config.level, "info")]_vars
    /\ [][(pc = "idle" /\ op' = "with") =>
              loggers'[Len(loggers')].level = loggers[arg'.logger].level]_vars

\* a derived logger of minimum level warn was called with level info and
\* another token: nothing was resolved, made, cached or ingested
C29_Witness ==
    /\ op = "log" /\ pc = "done"
    /\ arg.logger = 2 /\ arg.level = "info"
    /\ loggers[2].level = "warn"
    /\ arg.overrides.has /\ arg.overrides.v.token.has
    /\ ~loggers[2].resolved.has /\ ~loggers[2].client.has
    /\ clientCache = {} /\ ingested = << >> /\ flushes = 0
    /\ outcome = Ok("void")

\* a message that is undefined, empty or only whitespace
BlankMessage(payload) ==
    payload.message.has =>
        \A i \in 1..Len(payload.message.v) : payload.message.v[i] = " "

\* a value of the type LogsWriteResult
IsWriteResult(v) ==
    \/ DOMAIN v = { "ok", "status" } /\ v.ok = TRUE
    \/ /\ { "ok", "error" } \subseteq DOMAIN v
       /\ DOMAIN v \subseteq { "ok", "error", "status" }
       /\ v.ok = FALSE

(* C30: the hosted-logs client's send never rejects: every call that       *)
(* finishes resolves to a LogsWriteResult; a payload whose message is      *)
(* empty or only whitespace resolves to {ok: false, error: "message is     *)
(* required"} without any request being issued; a non-ok response or a     *)
(* thrown or aborted fetch resolves to ok: false; and the timeout timer    *)
(* armed for a call is cleared when the call finishes, on success and on   *)
(* failure.                                                                *)
C30_SendNeverRejects ==
    /\ (op = "send" /\ pc = "done") =>
          /\ outcome.tag = "ok" /\ IsWriteResult(outcome.value)
          /\ BlankMessage(arg.payload) =>
                /\ outcome.value = [ok |-> FALSE, error |-> "message is required"]
                /\ sent = << >> /\ resp = << >>
          /\ ~BlankMessage(arg.payload) => Len(sent) = 1 /\ Len(resp) = 1
          /\ (resp # << >> /\ (resp[1].kind = "thrown" \/ ~resp[1].ok)) =>
                ~outcome.value.ok
          /\ (resp # << >> /\ resp[1].kind = "response" /\ resp[1].ok) =>
                outcome.value = [ok |-> TRUE, status |-> resp[1].status]
          /\ timer = (IF sent # << >> /\ arg.timeoutMs > 0 THEN "cleared"
                      ELSE "none")
    /\ (op = "send" /\ pc \in { "wait", "text" }) =>
          timer = (IF arg.timeoutMs > 0 THEN "armed" ELSE "none")
             \/ (arg.timeoutMs > 0 /\ timer = "fired")

\* a send whose timer fired has ended with the abort as its error, the
\* timer cleared
C30_Witness ==
    /\ op = "send" /\ pc = "done"
    /\ resp = << [kind |-> "thrown", error |-> AbortError] >>
    /\ outcome = Ok([ok |-> FALSE, error |-> AbortError.message])
    /\ timer = "cleared"

====
